---------------------------- MODULE Spec2Model ----------------------------
(***************************************************************************)
(* Model of the SQS -> DynamoDB email pipeline of sqs_email_sender:        *)
(* email_shared (queue.rs, dynamo.rs, client.rs).  A raw queue message is  *)
(* turned into a pointer, the record it names is fetched, its status is    *)
(* advanced Pending -> Sending -> Sent by conditional writes around the    *)
(* delivery step, and a queue-deletion entry is collected for every        *)
(* message that must not be redelivered.  Two hosts drive the pipeline:    *)
(* email_lambda's handler, which also reconciles the batch with the queue, *)
(* and email_broker's poll loop with its --dry-run option.                 *)
(***************************************************************************)
EXTENDS Naturals, Sequences, FiniteSets, TLC

VARIABLES
    store,      \* the DynamoDB table: record key -> stored item
    transport,  \* which delivery collaborator is linked in: "stub" | "abstract"
    pc,         \* per consumer: where Client::process_messages stands
    batch,      \* per consumer: the messages handed to process_messages
    idx,        \* per consumer: index in batch of the message being processed
    pointer,    \* per consumer: process_message's local `pointer`
    email,      \* per consumer: process_message's local `email`
    cur,        \* per consumer: what process_message did so far for batch[idx]
    outcomes,   \* per consumer: one finished record per message processed
    handles,    \* per consumer: processed_message_handles
    received,   \* number of messages handed out so far (bounds the run)
    call,       \* the last direct call of a library function, with its result
    reply,      \* per consumer: what the Lambda handler returned
    deletes,    \* per consumer: the delete_message_batch requests it issued
    dry_run,    \* the broker's --dry-run option
    cycles,     \* per consumer: passes of the broker's loop completed
    deliveries  \* per record key: invocations of the delivery collaborator

\* The state of the hosts of the pipeline: the Lambda handler and the broker.
host == <<reply, deletes, dry_run, cycles>>

vars == <<store, transport, pc, batch, idx, pointer, email, cur, outcomes,
          handles, received, call, reply, deletes, dry_run, cycles, deliveries>>

(***************************************************************************)
(* Bounds of the model.                                                    *)
(***************************************************************************)
MaxBatch == 2      \* longest batch handed to process_messages
MaxReceived == 2   \* messages handed out over the whole run
MaxCycles == 2     \* passes of the broker's loop that are followed
MaxList == 3       \* longest list an SqsEmailMessages iterator is made of
MaxNone == 2       \* calls of next that return None that are followed

Consumers == {"c1", "c2"}
RecordKeys == {"e1", "e2"}

\* Option<T>: None is the empty sequence, Some(x) the one-element sequence.
None == <<>>
Some(x) == <<x>>

(***************************************************************************)
(* queue.rs: EmailPointer, EmailPointerMessage.                            *)
(***************************************************************************)

\* A JSON text.  `syntax` is the kind of its top-level value ("invalid" when
\* the text is not JSON at all); `members` are the members of an object, or
\* the elements of an array (their `name` is then unused).
JsonMember(name, type, s) == [name |-> name, type |-> type, s |-> s]
JsonText(syntax, members) == [syntax |-> syntax, members |-> members]

\* #[derive(Deserialize)] struct EmailPointer { email_id: String } read from a
\* JSON object: unknown members are ignored, a second email_id is a
\* duplicate-field error, a value that is no string an invalid-type error, and
\* an object without email_id a missing-field error.  `acc` is the Option
\* holding email_id so far; the result is <<"err">> or <<"ok", email_id>>.
RECURSIVE visit_map(_, _)
visit_map(members, acc) ==
    IF members = <<>>
    THEN IF acc = None THEN <<"err">> ELSE <<"ok", acc[1]>>
    ELSE LET m == Head(members) IN
         IF m.name = "email_id"
         THEN IF acc # None THEN <<"err">>
              ELSE IF m.type # "string" THEN <<"err">>
              ELSE visit_map(Tail(members), Some(m.s))
         ELSE visit_map(Tail(members), acc)

\* The same struct read from a JSON array: exactly one element, a string.
visit_seq(members) ==
    IF Len(members) = 1 /\ members[1].type = "string"
    THEN <<"ok", members[1].s>>
    ELSE <<"err">>

\* EmailPointer::from_json: serde_json::from_str(&json).ok()
from_json(json) ==
    LET r == CASE json.syntax = "object" -> visit_map(json.members, None)
               [] json.syntax = "array"  -> visit_seq(json.members)
               [] OTHER                  -> <<"err">>
    IN IF r[1] = "ok" THEN Some([email_id |-> r[2]]) ELSE None

\* rusoto_sqs::Message, reduced to the three fields the pipeline reads.
Message(id, handle, body) ==
    [message_id |-> id, receipt_handle |-> handle, body |-> body]

NoPointer == [message_id |-> "", handle |-> "", email_id |-> ""]

\* impl TryFrom<Message> for EmailPointerMessage
\* A faulty variant: the receipt handle is not required.
try_from_mut_no_handle(message) ==
    LET id == message.message_id
        handle == message.receipt_handle
        body == IF message.body = None THEN None ELSE from_json(message.body[1])
    IN IF id # None /\ body # None
       THEN [ok |-> TRUE,
             pointer |-> [message_id |-> id[1],
                          handle |-> IF handle = None THEN "" ELSE handle[1],
                          email_id |-> body[1].email_id],
             err |-> ""]
       ELSE [ok |-> FALSE, pointer |-> NoPointer, err |-> "Unable to parse EmailPointer."]

\* A faulty variant: the result depends on the table, a pointer to a record
\* stored as Sending is refused.
try_from_mut_reads_store(message) ==
    LET id == message.message_id
        handle == message.receipt_handle
        body == IF message.body = None THEN None ELSE from_json(message.body[1])
    IN IF /\ id # None /\ handle # None /\ body # None
          /\ ~(/\ body[1].email_id \in DOMAIN store
               /\ store[body[1].email_id].EmailStatus = <<"Sending">>)
       THEN [ok |-> TRUE,
             pointer |-> [message_id |-> id[1], handle |-> handle[1],
                          email_id |-> body[1].email_id],
             err |-> ""]
       ELSE [ok |-> FALSE, pointer |-> NoPointer, err |-> "Unable to parse EmailPointer."]

try_from(message) ==
    LET id == message.message_id
        handle == message.receipt_handle
        body == IF message.body = None THEN None ELSE from_json(message.body[1])
    IN CASE id # None /\ handle # None /\ body # None ->
              [ok |-> TRUE,
               pointer |-> [message_id |-> id[1], handle |-> handle[1],
                            email_id |-> body[1].email_id],
               err |-> ""]
         [] id = None ->
              [ok |-> FALSE, pointer |-> NoPointer, err |-> "No message id was found"]
         [] id # None /\ handle = None ->
              [ok |-> FALSE, pointer |-> NoPointer, err |-> "No receipt handle for message"]
         [] id # None /\ handle # None /\ body = None ->
              [ok |-> FALSE, pointer |-> NoPointer, err |-> "Unable to parse EmailPointer."]

\* impl From<&EmailPointerMessage> for DeleteMessageBatchRequestEntry
\* A faulty variant: the id and the handle change places.
DeleteEntryFrom_mut_swap(p) == [id |-> p.handle, receipt_handle |-> p.message_id]

DeleteEntryFrom(p) == [id |-> p.message_id, receipt_handle |-> p.handle]


(***************************************************************************)
(* email_message.rs: EmailStatus.                                          *)
(***************************************************************************)

\* enum EmailStatus { Pending, Sending, Sent, Unknown }
Pending == "EmailStatus::Pending"
Sending == "EmailStatus::Sending"
Sent == "EmailStatus::Sent"
Unknown == "EmailStatus::Unknown"

\* impl From<&str> for EmailStatus
\* A faulty variant: the letters' case is ignored.
EmailStatus_from_mut_ignore_case(status) ==
    CASE status \in {"Pending", "pending", "PENDING"} -> Pending
      [] status \in {"Sending", "sending", "SENDING"} -> Sending
      [] status \in {"Sent", "sent", "SENT"}          -> Sent
      [] OTHER                                        -> Unknown

EmailStatus_from(status) ==
    CASE status = "Pending" -> Pending
      [] status = "Sending" -> Sending
      [] status = "Sent"    -> Sent
      [] OTHER              -> Unknown

\* Display for EmailStatus, as used by set_email_status (to_string): the
\* variant's name.
EmailStatus_to_string(status) ==
    CASE status = Pending -> "Pending"
      [] status = Sending -> "Sending"
      [] status = Sent    -> "Sent"
      [] status = Unknown -> "Unknown"

(***************************************************************************)
(* The DynamoDB table.  An item holds string attributes; an attribute that *)
(* is missing (or is no string) is None.                                   *)
(***************************************************************************)
NoItem == [present |-> FALSE, EmailId |-> None, Subject |-> None, EmailStatus |-> None]
Item(id, subject, status) ==
    [present |-> TRUE, EmailId |-> id, Subject |-> subject, EmailStatus |-> status]

\* What a call to the table can run into: nothing, or the table being
\* unreachable or throttling (any RusotoError that is no conditional-check
\* failure).
Faults == {"none", "unreachable"}

\* DynamoDb::get_item: the GetItemOutput, or the service error.
get_item(st, key, fault) ==
    IF fault # "none"
    THEN [ok |-> FALSE, item |-> None]
    ELSE IF key \in DOMAIN st /\ st[key].present
         THEN [ok |-> TRUE, item |-> Some(st[key])]
         ELSE [ok |-> TRUE, item |-> None]

\* DynamoDb::update_item with condition_expression "EmailStatus = :expected"
\* and update_expression "SET EmailStatus = :next": evaluated atomically by
\* the table.  The condition is false on an item that does not exist or has
\* no EmailStatus attribute.
\* A faulty variant: the update replaces the whole item by its key and its
\* new status.
update_item_mut_put(st, key, expected, next, fault) ==
    IF fault # "none"
    THEN [ok |-> FALSE, err |-> "ServiceError", store |-> st]
    ELSE IF key \in DOMAIN st /\ st[key].present /\ st[key].EmailStatus = Some(expected)
         THEN [ok |-> TRUE, err |-> "",
               store |-> [st EXCEPT ![key] = Item(Some(key), None, Some(next))]]
         ELSE [ok |-> FALSE, err |-> "ConditionalCheckFailed", store |-> st]

update_item(st, key, expected, next, fault) ==
    IF fault # "none"
    THEN [ok |-> FALSE, err |-> "ServiceError", store |-> st]
    ELSE IF key \in DOMAIN st /\ st[key].present /\ st[key].EmailStatus = Some(expected)
         THEN [ok |-> TRUE, err |-> "",
               store |-> [st EXCEPT ![key].EmailStatus = Some(next)]]
         ELSE [ok |-> FALSE, err |-> "ConditionalCheckFailed", store |-> st]

(***************************************************************************)
(* dynamo.rs                                                               *)
(***************************************************************************)
NoEmail == [email_id |-> "", subject |-> "", status |-> Unknown]

\* DynamoItemWrapper::s behind extract_email_field: the attribute's string.
extract_email_field(item, field) ==
    CASE field = "EmailId"     -> item.EmailId
      [] field = "Subject"     -> item.Subject
      [] field = "EmailStatus" -> item.EmailStatus

\* impl TryFrom<GetItemOutput> for EmailMessage
\* A faulty variant: Subject is looked at before EmailId.
EmailMessage_try_from_mut_subject_first(data) ==
    IF data.item = None
    THEN [ok |-> FALSE, err |-> "RecordNotFound", email |-> NoEmail]
    ELSE LET item == data.item[1] IN
         IF extract_email_field(item, "Subject") = None
         THEN [ok |-> FALSE, err |-> "PropertyMissing(Subject)", email |-> NoEmail]
         ELSE IF extract_email_field(item, "EmailId") = None
         THEN [ok |-> FALSE, err |-> "PropertyMissing(EmailId)", email |-> NoEmail]
         ELSE IF extract_email_field(item, "EmailStatus") = None
         THEN [ok |-> FALSE, err |-> "PropertyMissing(EmailStatus)", email |-> NoEmail]
         ELSE [ok |-> TRUE, err |-> "",
               email |-> [email_id |-> extract_email_field(item, "EmailId")[1],
                          subject |-> extract_email_field(item, "Subject")[1],
                          status |-> EmailStatus_from(
                                         extract_email_field(item, "EmailStatus")[1])]]

\* A faulty variant: a missing Subject is read as the empty string.
EmailMessage_try_from_mut_default_subject(data) ==
    IF data.item = None
    THEN [ok |-> FALSE, err |-> "RecordNotFound", email |-> NoEmail]
    ELSE LET item == data.item[1] IN
         IF extract_email_field(item, "EmailId") = None
         THEN [ok |-> FALSE, err |-> "PropertyMissing(EmailId)", email |-> NoEmail]
         ELSE IF extract_email_field(item, "EmailStatus") = None
         THEN [ok |-> FALSE, err |-> "PropertyMissing(EmailStatus)", email |-> NoEmail]
         ELSE [ok |-> TRUE, err |-> "",
               email |-> [email_id |-> extract_email_field(item, "EmailId")[1],
                          subject |-> IF extract_email_field(item, "Subject") = None
                                      THEN ""
                                      ELSE extract_email_field(item, "Subject")[1],
                          status |-> EmailStatus_from(
                                         extract_email_field(item, "EmailStatus")[1])]]

EmailMessage_try_from(data) ==
    IF data.item = None
    THEN [ok |-> FALSE, err |-> "RecordNotFound", email |-> NoEmail]
    ELSE LET item == data.item[1] IN
         IF extract_email_field(item, "EmailId") = None
         THEN [ok |-> FALSE, err |-> "PropertyMissing(EmailId)", email |-> NoEmail]
         ELSE IF extract_email_field(item, "Subject") = None
         THEN [ok |-> FALSE, err |-> "PropertyMissing(Subject)", email |-> NoEmail]
         ELSE IF extract_email_field(item, "EmailStatus") = None
         THEN [ok |-> FALSE, err |-> "PropertyMissing(EmailStatus)", email |-> NoEmail]
         ELSE [ok |-> TRUE, err |-> "",
               email |-> [email_id |-> extract_email_field(item, "EmailId")[1],
                          subject |-> extract_email_field(item, "Subject")[1],
                          status |-> EmailStatus_from(
                                         extract_email_field(item, "EmailStatus")[1])]]

\* get_email_message: get_item(..).map_err(GetError::from).and_then(try_from)
get_email_message(st, message, fault) ==
    LET out == get_item(st, message.email_id, fault) IN
    IF ~out.ok
    THEN [ok |-> FALSE, err |-> "ServiceError", email |-> NoEmail]
    ELSE EmailMessage_try_from(out)

\* set_email_status: the conditional update; Ok(()) or the UpdateError.
\* A faulty variant: the update carries no condition_expression.
set_email_status_mut_unconditional(st, message, current_status, next_status, fault) ==
    IF fault # "none"
    THEN [ok |-> FALSE, err |-> "ServiceError", store |-> st]
    ELSE IF message.email_id \in DOMAIN st /\ st[message.email_id].present
         THEN [ok |-> TRUE, err |-> "",
               store |-> [st EXCEPT ![message.email_id].EmailStatus =
                                         Some(EmailStatus_to_string(next_status))]]
         ELSE [ok |-> FALSE, err |-> "ConditionalCheckFailed", store |-> st]

\* A faulty variant: the status is written although the condition failed.
set_email_status_mut_write_on_fail(st, message, current_status, next_status, fault) ==
    LET u == update_item(st, message.email_id,
                         EmailStatus_to_string(current_status),
                         EmailStatus_to_string(next_status), fault)
    IN IF u.err = "ConditionalCheckFailed" /\ message.email_id \in DOMAIN st
       THEN [u EXCEPT !.store = [st EXCEPT ![message.email_id].EmailStatus =
                                               Some(EmailStatus_to_string(next_status))]]
       ELSE u

set_email_status(st, message, current_status, next_status, fault) ==
    update_item(st, message.email_id,
                EmailStatus_to_string(current_status),
                EmailStatus_to_string(next_status), fault)

\* set_email_to_sending, set_email_to_sent: the two transitions of the
\* pipeline, Pending -> Sending before delivery and Sending -> Sent after it.
set_email_to_sending(st, message, fault) ==
    set_email_status(st, message, Pending, Sending, fault)

set_email_to_sent(st, message, fault) ==
    set_email_status(st, message, Sending, Sent, fault)

(***************************************************************************)
(* client.rs: Client::process_message, one message at a time.  The function *)
(* suspends at each call of the table and of the delivery collaborator;    *)
(* the operators below are what it does with each answer.                  *)
(***************************************************************************)
NoMessage == Message(None, None, None)

\* Result<EmailPointerMessage, ProcessError>: Ok(pointer), Err(Skip(pointer)),
\* Err(SkipMessage(message)) or Err(Retry).
ProcessResult(kind, p, m) == [kind |-> kind, pointer |-> p, message |-> m]
NoResult == ProcessResult("none", NoPointer, NoMessage)

\* Step 1: the pointer is parsed from a clone of the message.
\* A faulty variant: a message that does not parse is retried.
parse_pointer_mut_retry(message) ==
    LET r == try_from(message) IN
    IF r.ok
    THEN [done |-> FALSE, result |-> NoResult, pointer |-> r.pointer]
    ELSE [done |-> TRUE, result |-> ProcessResult("Retry", NoPointer, NoMessage),
          pointer |-> NoPointer]

parse_pointer(message) ==
    LET r == try_from(message) IN
    IF r.ok
    THEN [done |-> FALSE, result |-> NoResult, pointer |-> r.pointer]
    ELSE [done |-> TRUE, result |-> ProcessResult("SkipMessage", NoPointer, message),
          pointer |-> NoPointer]

\* Step 4: the match on the result of get_email_message.
\* A faulty variant: a fetched record is sent whatever its status.
match_email_mut_no_skip(r, p) ==
    IF r.ok
    THEN [done |-> FALSE, result |-> NoResult, email |-> r.email]
    ELSE [done |-> TRUE, result |-> ProcessResult("Retry", NoPointer, NoMessage),
          email |-> NoEmail]

\* A faulty variant: a record that is not Pending is reported as delivered.
match_email_mut_ok_on_skip(r, p) ==
    IF r.ok /\ r.email.status # Pending
    THEN [done |-> TRUE, result |-> ProcessResult("Ok", p, NoMessage), email |-> NoEmail]
    ELSE IF r.ok
    THEN [done |-> FALSE, result |-> NoResult, email |-> r.email]
    ELSE [done |-> TRUE, result |-> ProcessResult("Retry", NoPointer, NoMessage),
          email |-> NoEmail]

\* A faulty variant: only a record found Sending is skipped; a Sent one is
\* processed again.
match_email_mut_resend_sent(r, p) ==
    IF r.ok /\ r.email.status \notin {Pending, Sent}
    THEN [done |-> TRUE, result |-> ProcessResult("Skip", p, NoMessage), email |-> NoEmail]
    ELSE IF r.ok
    THEN [done |-> FALSE, result |-> NoResult, email |-> r.email]
    ELSE [done |-> TRUE, result |-> ProcessResult("Retry", NoPointer, NoMessage),
          email |-> NoEmail]

\* A faulty variant: a record that cannot be fetched is given up for good.
match_email_mut_skip_on_err(r, p) ==
    IF r.ok /\ r.email.status = Pending
    THEN [done |-> FALSE, result |-> NoResult, email |-> r.email]
    ELSE [done |-> TRUE, result |-> ProcessResult("Skip", p, NoMessage), email |-> NoEmail]

match_email(r, p) ==
    IF r.ok /\ r.email.status # Pending
    THEN [done |-> TRUE, result |-> ProcessResult("Skip", p, NoMessage), email |-> NoEmail]
    ELSE IF r.ok
    THEN [done |-> FALSE, result |-> NoResult, email |-> r.email]
    ELSE [done |-> TRUE, result |-> ProcessResult("Retry", NoPointer, NoMessage),
          email |-> NoEmail]

\* Step 5: an Err of set_email_to_sending is a Retry.
\* A faulty variant: the error of the update is dropped.
match_sending_mut_ignore_err(ok) == [done |-> FALSE, result |-> NoResult]

match_sending(ok) ==
    IF ok
    THEN [done |-> FALSE, result |-> NoResult]
    ELSE [done |-> TRUE, result |-> ProcessResult("Retry", NoPointer, NoMessage)]

\* Step 6: an Err of send_email is a Retry.
\* A faulty variant: the error of send_email is dropped.
match_send_mut_ignore_err(ok) == [done |-> FALSE, result |-> NoResult]

match_send(ok) ==
    IF ok
    THEN [done |-> FALSE, result |-> NoResult]
    ELSE [done |-> TRUE, result |-> ProcessResult("Retry", NoPointer, NoMessage)]

\* Steps 7 and 8: an Err of set_email_to_sent is a Retry, else Ok(pointer).
\* A faulty variant: the error of the update is dropped.
match_sent_mut_always_ok(ok, p) == ProcessResult("Ok", p, NoMessage)

match_sent(ok, p) ==
    IF ok
    THEN ProcessResult("Ok", p, NoMessage)
    ELSE ProcessResult("Retry", NoPointer, NoMessage)

\* Client::send_email: the transport is not written yet.
\* A faulty variant: the stub reports a delivery.
send_email_mut_ok(mail) == TRUE

send_email(mail) == FALSE

\* The delivery collaborator behind step 6: send_email as it stands, or a
\* transport that answers `answer`.
deliver(kind, mail, answer) ==
    IF kind = "stub" THEN send_email(mail) ELSE answer

(***************************************************************************)
(* client.rs: Client::process_messages.                                    *)
(***************************************************************************)

\* The match on process_message's result: what becomes of
\* processed_message_handles.  unwrap() of a None aborts the process.
\* A faulty variant: the entry is put in front of the list.
collect_mut_prepend(hs, result) ==
    CASE result.kind \in {"Ok", "Skip"} ->
           [panic |-> FALSE, handles |-> <<DeleteEntryFrom(result.pointer)>> \o hs]
      [] result.kind = "SkipMessage" ->
           IF result.message.message_id = None \/ result.message.receipt_handle = None
           THEN [panic |-> TRUE, handles |-> hs]
           ELSE [panic |-> FALSE,
                 handles |-> <<[id |-> result.message.message_id[1],
                                receipt_handle |->
                                    result.message.receipt_handle[1]]>> \o hs]
      [] result.kind = "Retry" ->
           [panic |-> FALSE, handles |-> hs]

collect(hs, result) ==
    CASE result.kind \in {"Ok", "Skip"} ->
           [panic |-> FALSE, handles |-> Append(hs, DeleteEntryFrom(result.pointer))]
      [] result.kind = "SkipMessage" ->
           IF result.message.message_id = None \/ result.message.receipt_handle = None
           THEN [panic |-> TRUE, handles |-> hs]
           ELSE [panic |-> FALSE,
                 handles |-> Append(hs, [id |-> result.message.message_id[1],
                                         receipt_handle |->
                                             result.message.receipt_handle[1]])]
      [] result.kind = "Retry" ->
           [panic |-> FALSE, handles |-> hs]

\* What process_message did for one message: the calls it made, in order,
\* the answer of each ("none" for a call not made), the pointer it parsed
\* and its result.
NoTrace ==
    [steps |-> <<>>, pointer |-> NoPointer, parse |-> "none", fetch |-> "none",
     status |-> "none", to_sending |-> "none", send |-> "none", to_sent |-> "none",
     result |-> NoResult]

Did(tr, step) == [tr EXCEPT !.steps = Append(@, step)]

\* The messages the queue holds: two well-formed pointers, a body that is no
\* JSON, and a message without message_id.
BodyFor(key) == JsonText("object", <<JsonMember("email_id", "string", key)>>)
Pool ==
    { Message(Some("m1"), Some("h1"), Some(BodyFor("e1"))),
      Message(Some("m2"), Some("h2"), Some(BodyFor("e2"))),
      Message(Some("m3"), Some("h3"), Some(JsonText("invalid", <<>>))),
      Message(None, Some("h4"), Some(BodyFor("e1"))) }

Batches == UNION { [1..n -> Pool] : n \in 0..MaxBatch }

\* The items the upstream writer (or anything else) may have left in the
\* table under a key.
ItemsFor(key) ==
    { NoItem,
      Item(Some(key), Some("subject"), Some("Pending")),
      Item(Some(key), Some("subject"), Some("Sending")),
      Item(Some(key), Some("subject"), Some("Sent")),
      Item(Some(key), Some("subject"), Some("Queued")),
      Item(Some(key), None, Some("Pending")),
      Item(Some(key), Some("subject"), None) }

Stores ==
    { [k \in RecordKeys |-> IF k = "e1" THEN i ELSE j] :
        i \in ItemsFor("e1"),
        j \in {NoItem, Item(Some("e2"), Some("subject"), Some("Pending"))} }

NoCall == [op |-> "none"]

Idle ==
    /\ pc = [c \in Consumers |-> "idle"]
    /\ batch = [c \in Consumers |-> <<>>]
    /\ idx = [c \in Consumers |-> 1]
    /\ pointer = [c \in Consumers |-> NoPointer]
    /\ email = [c \in Consumers |-> NoEmail]
    /\ cur = [c \in Consumers |-> NoTrace]
    /\ outcomes = [c \in Consumers |-> <<>>]
    /\ handles = [c \in Consumers |-> <<>>]
    /\ received = 0
    /\ reply = [c \in Consumers |-> "none"]
    /\ deletes = [c \in Consumers |-> <<>>]
    /\ cycles = [c \in Consumers |-> 0]
    /\ deliveries = [k \in RecordKeys |-> 0]

Init ==
    /\ store \in Stores
    /\ transport \in {"stub", "abstract"}
    /\ Idle
    /\ call = NoCall
    /\ dry_run = FALSE

\* The end of one pass of the for loop: the result is matched and the loop
\* moves on to the next message (or the process aborts).
Complete(c, result, tr) ==
    LET r == collect(handles[c], result) IN
    /\ outcomes' = [outcomes EXCEPT ![c] = Append(@, [tr EXCEPT !.result = result])]
    /\ handles' = [handles EXCEPT ![c] = r.handles]
    /\ pc' = [pc EXCEPT ![c] = IF r.panic THEN "panicked" ELSE "next"]
    /\ idx' = [idx EXCEPT ![c] = IF r.panic THEN @ ELSE @ + 1]
    /\ cur' = [cur EXCEPT ![c] = NoTrace]
    /\ pointer' = [pointer EXCEPT ![c] = NoPointer]
    /\ email' = [email EXCEPT ![c] = NoEmail]

\* process_message goes on to its next call.
Continue(c, next, tr, p, e) ==
    /\ pc' = [pc EXCEPT ![c] = next]
    /\ cur' = [cur EXCEPT ![c] = tr]
    /\ pointer' = [pointer EXCEPT ![c] = p]
    /\ email' = [email EXCEPT ![c] = e]
    /\ UNCHANGED <<outcomes, handles, idx>>

\* process_messages is called with a batch received from the queue.
process_messages(c, b) ==
    /\ pc[c] \in {"idle", "returned"}
    /\ received + Len(b) <= MaxReceived
    /\ received' = received + Len(b)
    /\ batch' = [batch EXCEPT ![c] = b]
    /\ idx' = [idx EXCEPT ![c] = 1]
    /\ outcomes' = [outcomes EXCEPT ![c] = <<>>]
    /\ handles' = [handles EXCEPT ![c] = <<>>]
    /\ pc' = [pc EXCEPT ![c] = "next"]
    /\ UNCHANGED <<store, transport, pointer, email, cur, call, host, deliveries>>

\* The loop takes the next message: process_message parses the pointer.
process_message(c) ==
    /\ pc[c] = "next"
    /\ idx[c] <= Len(batch[c])
    /\ LET message == batch[c][idx[c]]
           r == parse_pointer(message)
       IN IF r.done
          THEN Complete(c, r.result, [Did(NoTrace, "try_from") EXCEPT !.parse = "err"])
          ELSE Continue(c, "get_email",
                        [Did(NoTrace, "try_from") EXCEPT !.parse = "ok",
                                                         !.pointer = r.pointer],
                        r.pointer, NoEmail)
    /\ UNCHANGED <<store, transport, batch, received, call, host, deliveries>>

\* get_email_message answers.
get_email(c, fault) ==
    /\ pc[c] = "get_email"
    /\ LET g == get_email_message(store, pointer[c], fault)
           r == match_email(g, pointer[c])
           tr == [Did(cur[c], "get_email_message") EXCEPT
                      !.fetch = IF g.ok THEN "ok" ELSE g.err,
                      !.status = IF g.ok THEN g.email.status ELSE "none"]
       IN IF r.done
          THEN Complete(c, r.result, tr)
          ELSE Continue(c, "to_sending", tr, pointer[c], r.email)
    /\ UNCHANGED <<store, transport, batch, received, call, host, deliveries>>

\* set_email_to_sending answers.
to_sending(c, fault) ==
    /\ pc[c] = "to_sending"
    /\ LET u == set_email_to_sending(store, pointer[c], fault)
           r == match_sending(u.ok)
           tr == [Did(cur[c], "set_email_to_sending") EXCEPT
                      !.to_sending = IF u.ok THEN "ok" ELSE u.err]
       IN /\ store' = u.store
          /\ IF r.done
             THEN Complete(c, r.result, tr)
             ELSE Continue(c, "send", tr, pointer[c], email[c])
    /\ UNCHANGED <<transport, batch, received, call, host, deliveries>>

\* The delivery collaborator answers.
send(c, answer) ==
    /\ pc[c] = "send"
    /\ LET ok == deliver(transport, email[c], answer)
           r == match_send(ok)
           tr == [Did(cur[c], "send_email") EXCEPT !.send = IF ok THEN "ok" ELSE "err"]
       IN IF r.done
          THEN Complete(c, r.result, tr)
          ELSE Continue(c, "to_sent", tr, pointer[c], email[c])
    /\ deliveries' = [deliveries EXCEPT ![pointer[c].email_id] = @ + 1]
    /\ UNCHANGED <<store, transport, batch, received, call, host>>

\* set_email_to_sent answers.
to_sent(c, fault) ==
    /\ pc[c] = "to_sent"
    /\ LET u == set_email_to_sent(store, pointer[c], fault)
           tr == [Did(cur[c], "set_email_to_sent") EXCEPT
                      !.to_sent = IF u.ok THEN "ok" ELSE u.err]
       IN /\ store' = u.store
          /\ Complete(c, match_sent(u.ok, pointer[c]), tr)
    /\ UNCHANGED <<transport, batch, received, call, host, deliveries>>

\* The loop is over: process_messages returns processed_message_handles.
return(c) ==
    /\ pc[c] = "next"
    /\ idx[c] > Len(batch[c])
    /\ pc' = [pc EXCEPT ![c] = "returned"]
    /\ UNCHANGED <<store, transport, batch, idx, pointer, email, cur, outcomes,
                   handles, received, call, host, deliveries>>

Next ==
    \/ \E c \in Consumers, b \in Batches : process_messages(c, b)
    \/ \E c \in Consumers : process_message(c)
    \/ \E c \in Consumers, fault \in Faults : get_email(c, fault)
    \/ \E c \in Consumers, fault \in Faults : to_sending(c, fault)
    \/ \E c \in Consumers, answer \in BOOLEAN : send(c, answer)
    \/ \E c \in Consumers, fault \in Faults : to_sent(c, fault)
    \/ \E c \in Consumers : return(c)

Spec == Init /\ [][Next]_vars

(***************************************************************************)
(* The library called directly: email_shared exports try_from and           *)
(* set_email_status, and a caller may pass them any message, any key and   *)
(* any pair of statuses.                                                   *)
(***************************************************************************)
JsonTexts ==
    { JsonText("invalid", <<>>),
      JsonText("null", <<>>),
      JsonText("string", <<>>),
      JsonText("object", <<>>),
      JsonText("object", <<JsonMember("email_id", "string", "e1")>>),
      JsonText("object", <<JsonMember("email_id", "string", "")>>),
      JsonText("object", <<JsonMember("email_id", "number", "7")>>),
      JsonText("object", <<JsonMember("email_id", "null", "")>>),
      JsonText("object", <<JsonMember("id", "string", "e1")>>),
      JsonText("object", <<JsonMember("subject", "string", "hello"),
                           JsonMember("email_id", "string", "e2")>>),
      JsonText("object", <<JsonMember("email_id", "string", "e1"),
                           JsonMember("email_id", "string", "e2")>>),
      JsonText("array", <<>>),
      JsonText("array", <<JsonMember("", "string", "e1")>>),
      JsonText("array", <<JsonMember("", "string", "e1"),
                          JsonMember("", "string", "e2")>>) }

RawMessages ==
    { Message(id, handle, body) :
        id \in {None, Some("m1"), Some("m2")},
        handle \in {None, Some("h1"), Some("h2")},
        body \in {None} \cup { Some(j) : j \in JsonTexts } }

EmailStatuses == {Pending, Sending, Sent, Unknown}

\* EmailPointerMessage::try_from(message)
call_try_from(message) ==
    /\ call' = [op |-> "try_from", message |-> message, result |-> try_from(message)]
    /\ UNCHANGED <<store, transport, pc, batch, idx, pointer, email, cur, outcomes,
                   handles, received, host, deliveries>>

\* set_email_status(dynamodb, table_name, &message, current_status, next_status)
call_set_email_status(key, current_status, next_status, fault) ==
    LET message == [NoPointer EXCEPT !.email_id = key]
        u == set_email_status(store, message, current_status, next_status, fault)
    IN /\ store' = u.store
       /\ call' = [op |-> "set_email_status", key |-> key, from |-> current_status,
                   to |-> next_status, fault |-> fault, before |-> store,
                   ok |-> u.ok, err |-> u.err]
       /\ UNCHANGED <<transport, pc, batch, idx, pointer, email, cur, outcomes,
                      handles, received, host, deliveries>>

\* rusoto_dynamodb::AttributeValue: absent from the item, a string (S) or a
\* number (N).
AttributeValue(kind, v) == [kind |-> kind, v |-> v]

\* av.s of the attribute stored under a key of the item, if any.
AttributeValue_s(av) == IF av.kind = "S" THEN Some(av.v) ELSE None

\* The items a GetItemOutput may carry.
RawItems ==
    { [EmailId |-> id, Subject |-> subject, EmailStatus |-> status] :
        id \in {AttributeValue("absent", ""), AttributeValue("N", "1"),
                AttributeValue("S", "e1")},
        subject \in {AttributeValue("absent", ""), AttributeValue("N", "1"),
                     AttributeValue("S", "subject")},
        status \in {AttributeValue("absent", ""), AttributeValue("N", "1")}
                      \cup { AttributeValue("S", v) :
                               v \in {"Pending", "Sending", "Sent", "Queued"} } }

\* GetItemOutput { item }
GetItemOutput(raw) ==
    [ok |-> TRUE,
     item |-> IF raw = None
              THEN None
              ELSE Some(Item(AttributeValue_s(raw[1].EmailId),
                             AttributeValue_s(raw[1].Subject),
                             AttributeValue_s(raw[1].EmailStatus)))]

\* EmailMessage::try_from(GetItemOutput { item: raw })
call_EmailMessage_try_from(raw) ==
    /\ call' = [op |-> "EmailMessage_try_from", raw |-> raw,
                result |-> EmailMessage_try_from(GetItemOutput(raw))]
    /\ UNCHANGED <<store, transport, pc, batch, idx, pointer, email, cur, outcomes,
                   handles, received, host, deliveries>>

\* The strings a stored EmailStatus attribute may hold.
StatusStrings ==
    {"Pending", "Sending", "Sent", "pending", "SENDING", "sent", " Sent",
     "Unknown", "Queued", ""}

\* EmailStatus::from(status)
call_EmailStatus_from(status) ==
    /\ call' = [op |-> "EmailStatus_from", status |-> status,
                result |-> EmailStatus_from(status)]
    /\ UNCHANGED <<store, transport, pc, batch, idx, pointer, email, cur, outcomes,
                   handles, received, host, deliveries>>

InitLibrary ==
    /\ store \in { st \in Stores : st["e2"].present }
    /\ transport = "stub"
    /\ Idle
    /\ call = NoCall
    /\ dry_run = FALSE

NextLibrary ==
    \/ \E message \in RawMessages : call_try_from(message)
    \/ \E key \in RecordKeys \cup {"e9"}, current_status \in EmailStatuses,
          next_status \in EmailStatuses, fault \in Faults :
          call_set_email_status(key, current_status, next_status, fault)
    \/ \E raw \in {None} \cup { Some(i) : i \in RawItems } :
          call_EmailMessage_try_from(raw)
    \/ \E status \in StatusStrings : call_EmailStatus_from(status)

SpecLibrary == InitLibrary /\ [][NextLibrary]_vars

(***************************************************************************)
(* email_lambda: the handler invoked with one SqsEvent.  It walks the      *)
(* records as process_messages does, without a delivery step, and then     *)
(* compares the deletion entries it collected with the records received.   *)
(***************************************************************************)

\* enum EmailHandlerError
BatchFailure == "EmailHandlerError::BatchFailure"
PartialBatchFailure == "EmailHandlerError::PartialBatchFailure"
SqsDeleteFailed == "EmailHandlerError::SqsDeleteFailed"

\* upate_to_sending(table_name, pointer)
\* A faulty variant: the record is marked Sent at once.
upate_to_sending_mut_to_sent(st, p, fault) == set_email_status(st, p, Pending, Sent, fault)

upate_to_sending(st, p, fault) == set_email_status(st, p, Pending, Sending, fault)

\* upate_to_sent(table_name, pointer)
upate_to_sent(st, p, fault) == set_email_status(st, p, Sending, Sent, fault)

\* if record_count == entries_to_delete_count { Ok(..) } else { .. }
\* A faulty variant: a batch with at least one entry counts as a success.
handler_success_mut_any_entry(record_count, entries_to_delete_count) ==
    record_count = 0 \/ entries_to_delete_count > 0

\* A faulty variant: no batch counts as a success.
handler_success_mut_never(record_count, entries_to_delete_count) == FALSE

\* A faulty variant: a batch without records is no success.
handler_success_mut_nonempty(record_count, entries_to_delete_count) ==
    record_count > 0 /\ record_count = entries_to_delete_count

handler_success(record_count, entries_to_delete_count) ==
    record_count = entries_to_delete_count

\* DeleteMessageBatchRequest { entries: entries_to_delete, queue_url }
\* A faulty variant: the request is built without the collected entries.
DeleteMessageBatchRequest_mut_empty(entries_to_delete) ==
    [entries |-> <<>>, response |-> "pending"]

DeleteMessageBatchRequest(entries_to_delete) ==
    [entries |-> entries_to_delete, response |-> "pending"]

\* let error = match delete_response { .. }
\* A faulty variant: the count is looked at before the response.
handler_error_mut_count_first(delete_ok, entries_to_delete_count) ==
    IF entries_to_delete_count > 0 THEN PartialBatchFailure
    ELSE IF delete_ok THEN BatchFailure
    ELSE SqsDeleteFailed

handler_error(delete_ok, entries_to_delete_count) ==
    IF delete_ok /\ entries_to_delete_count > 0 THEN PartialBatchFailure
    ELSE IF delete_ok THEN BatchFailure
    ELSE SqsDeleteFailed

\* The end of one pass of the handler's for loop: `continue`, or the bottom
\* of the loop body; push says whether an entry for the pointer was pushed
\* to entries_to_delete.
handler_continue(c, kind, push, tr) ==
    /\ outcomes' = [outcomes EXCEPT ![c] =
                       Append(@, [tr EXCEPT !.result =
                                      ProcessResult(kind, tr.pointer, NoMessage)])]
    /\ handles' = [handles EXCEPT ![c] =
                      IF push THEN Append(@, DeleteEntryFrom(tr.pointer)) ELSE @]
    /\ pc' = [pc EXCEPT ![c] = "l_next"]
    /\ idx' = [idx EXCEPT ![c] = @ + 1]
    /\ cur' = [cur EXCEPT ![c] = NoTrace]
    /\ pointer' = [pointer EXCEPT ![c] = NoPointer]
    /\ email' = [email EXCEPT ![c] = NoEmail]

\* The handler is invoked with the records of one event.
handler(c, b) ==
    /\ pc[c] \in {"idle", "l_returned"}
    /\ received + Len(b) <= MaxReceived
    /\ received' = received + Len(b)
    /\ batch' = [batch EXCEPT ![c] = b]
    /\ idx' = [idx EXCEPT ![c] = 1]
    /\ outcomes' = [outcomes EXCEPT ![c] = <<>>]
    /\ handles' = [handles EXCEPT ![c] = <<>>]
    /\ reply' = [reply EXCEPT ![c] = "none"]
    /\ deletes' = [deletes EXCEPT ![c] = <<>>]
    /\ pc' = [pc EXCEPT ![c] = "l_next"]
    /\ UNCHANGED <<store, transport, pointer, email, cur, call, dry_run, cycles, deliveries>>

\* 1. The loop takes the next record and parses the pointer.
handler_record(c) ==
    /\ pc[c] = "l_next"
    /\ idx[c] <= Len(batch[c])
    /\ LET r == try_from(batch[c][idx[c]])
       IN IF ~r.ok
          THEN handler_continue(c, "Continue", FALSE,
                                [Did(NoTrace, "try_from") EXCEPT !.parse = "err"])
          ELSE Continue(c, "l_get_email",
                        [Did(NoTrace, "try_from") EXCEPT !.parse = "ok",
                                                         !.pointer = r.pointer],
                        r.pointer, NoEmail)
    /\ UNCHANGED <<store, transport, batch, received, call, host, deliveries>>

\* 2.-4. get_email_message answers.
handler_get_email(c, fault) ==
    /\ pc[c] = "l_get_email"
    /\ LET g == get_email_message(store, pointer[c], fault)
           tr == [Did(cur[c], "get_email_message") EXCEPT
                      !.fetch = IF g.ok THEN "ok" ELSE g.err,
                      !.status = IF g.ok THEN g.email.status ELSE "none"]
       IN IF g.ok /\ g.email.status # Pending
          THEN handler_continue(c, "Skip", TRUE, tr)
          ELSE IF g.ok
          THEN Continue(c, "l_to_sending", tr, pointer[c], g.email)
          ELSE handler_continue(c, "Continue", FALSE, tr)
    /\ UNCHANGED <<store, transport, batch, received, call, host, deliveries>>

\* 5. upate_to_sending answers.
handler_to_sending(c, fault) ==
    /\ pc[c] = "l_to_sending"
    /\ LET u == upate_to_sending(store, pointer[c], fault)
           tr == [Did(cur[c], "set_email_to_sending") EXCEPT
                      !.to_sending = IF u.ok THEN "ok" ELSE u.err]
       IN /\ store' = u.store
          /\ IF u.ok
             THEN Continue(c, "l_to_sent", tr, pointer[c], email[c])
             ELSE handler_continue(c, "Continue", FALSE, tr)
    /\ UNCHANGED <<transport, batch, received, call, host, deliveries>>

\* 6.-7. Nothing is sent; upate_to_sent answers.
handler_to_sent(c, fault) ==
    /\ pc[c] = "l_to_sent"
    /\ LET u == upate_to_sent(store, pointer[c], fault)
           tr == [Did(cur[c], "set_email_to_sent") EXCEPT
                      !.to_sent = IF u.ok THEN "ok" ELSE u.err]
       IN /\ store' = u.store
          /\ IF u.ok
             THEN handler_continue(c, "Ok", TRUE, tr)
             ELSE handler_continue(c, "Continue", FALSE, tr)
    /\ UNCHANGED <<transport, batch, received, call, host, deliveries>>

\* The loop is over: the handler returns Ok, or sends the delete request.
handler_reconcile(c) ==
    /\ pc[c] = "l_next"
    /\ idx[c] > Len(batch[c])
    /\ IF handler_success(Len(batch[c]), Len(handles[c]))
       THEN /\ reply' = [reply EXCEPT ![c] = "Ok"]
            /\ pc' = [pc EXCEPT ![c] = "l_returned"]
            /\ UNCHANGED deletes
       ELSE /\ deletes' = [deletes EXCEPT ![c] =
                              Append(@, DeleteMessageBatchRequest(handles[c]))]
            /\ pc' = [pc EXCEPT ![c] = "l_delete"]
            /\ UNCHANGED reply
    /\ UNCHANGED <<store, transport, batch, idx, pointer, email, cur, outcomes,
                   handles, received, call, dry_run, cycles, deliveries>>

\* delete_message_batch answers and the handler returns the error.
handler_delete_response(c, delete_ok) ==
    /\ pc[c] = "l_delete"
    /\ deletes' = [deletes EXCEPT ![c][Len(deletes[c])].response =
                      IF delete_ok THEN "ok" ELSE "err"]
    /\ reply' = [reply EXCEPT ![c] = handler_error(delete_ok, Len(handles[c]))]
    /\ pc' = [pc EXCEPT ![c] = "l_returned"]
    /\ UNCHANGED <<store, transport, batch, idx, pointer, email, cur, outcomes,
                   handles, received, call, dry_run, cycles, deliveries>>

NextLambda ==
    \/ \E c \in Consumers, b \in Batches : handler(c, b)
    \/ \E c \in Consumers : handler_record(c)
    \/ \E c \in Consumers, fault \in Faults : handler_get_email(c, fault)
    \/ \E c \in Consumers, fault \in Faults : handler_to_sending(c, fault)
    \/ \E c \in Consumers, fault \in Faults : handler_to_sent(c, fault)
    \/ \E c \in Consumers : handler_reconcile(c)
    \/ \E c \in Consumers, delete_ok \in BOOLEAN : handler_delete_response(c, delete_ok)

\* The handler has no delivery step: the transport plays no part.
InitLambda ==
    /\ store \in Stores
    /\ transport = "stub"
    /\ Idle
    /\ call = NoCall
    /\ dry_run = FALSE

SpecLambda == InitLambda /\ [][NextLambda]_vars

(***************************************************************************)
(* The two hosts side by side on one table: a consumer running             *)
(* Client::process_messages and an invocation of the Lambda handler.       *)
(***************************************************************************)
TheClient == "c1"
TheHandler == "c2"

NextPipeline ==
    \/ \E b \in Batches : process_messages(TheClient, b)
    \/ \E b \in Batches : handler(TheHandler, b)
    \/ \E c \in Consumers : process_message(c)
    \/ \E c \in Consumers, fault \in Faults : get_email(c, fault)
    \/ \E c \in Consumers, fault \in Faults : to_sending(c, fault)
    \/ \E c \in Consumers, answer \in BOOLEAN : send(c, answer)
    \/ \E c \in Consumers, fault \in Faults : to_sent(c, fault)
    \/ \E c \in Consumers : return(c)
    \/ \E c \in Consumers : handler_record(c)
    \/ \E c \in Consumers, fault \in Faults : handler_get_email(c, fault)
    \/ \E c \in Consumers, fault \in Faults : handler_to_sending(c, fault)
    \/ \E c \in Consumers, fault \in Faults : handler_to_sent(c, fault)
    \/ \E c \in Consumers : handler_reconcile(c)
    \/ \E c \in Consumers, delete_ok \in BOOLEAN : handler_delete_response(c, delete_ok)

SpecPipeline == Init /\ [][NextPipeline]_vars

(***************************************************************************)
(* email_broker: main polls the queue in a loop, hands what it received to *)
(* its own process_messages, builds the delete request from the result and *)
(* logs it; with --dry-run it leaves the loop after the first pass.        *)
(***************************************************************************)

\* ReceiveMessageRequest.max_number_of_messages
MaxNumberOfMessages == 1

\* What get_sqs_email_messages can answer: Err, or Ok with the messages.
Polled ==
    {[ok |-> FALSE, messages |-> <<>>]}
        \cup { [ok |-> TRUE, messages |-> b] :
                 b \in UNION { [1..n -> Pool] : n \in 0..MaxNumberOfMessages } }

\* impl TryFrom<GetItemOutput> for EmailMessage (email_message.rs): the
\* status is not read.
EmailMessage_try_from_item(data) ==
    IF data.item = None
    THEN [ok |-> FALSE, err |-> "RecordNotFound", email |-> NoEmail]
    ELSE LET item == data.item[1] IN
         IF extract_email_field(item, "EmailId") = None
         THEN [ok |-> FALSE, err |-> "RecordMissingId", email |-> NoEmail]
         ELSE IF extract_email_field(item, "Subject") = None
         THEN [ok |-> FALSE, err |-> "RecordMissingSubject", email |-> NoEmail]
         ELSE [ok |-> TRUE, err |-> "",
               email |-> [NoEmail EXCEPT
                             !.email_id = extract_email_field(item, "EmailId")[1],
                             !.subject = extract_email_field(item, "Subject")[1]]]

\* Client::get_email_message of the broker
broker_get_email_message(st, message, fault) ==
    LET out == get_item(st, message.email_id, fault) IN
    IF ~out.ok
    THEN [ok |-> FALSE, err |-> "RecordUnreachable", email |-> NoEmail]
    ELSE EmailMessage_try_from_item(out)

\* send_email of the broker: Err("Unimplemented")
broker_send_email(mail) == FALSE

\* if opt.dry_run { break; }
\* A faulty variant: the loop is left after every pass.
loop_exit_mut_always(opt_dry_run) == TRUE

loop_exit(opt_dry_run) == opt_dry_run

\* The end of one pass of the for loop of the broker's process_messages:
\* Ok(id_message) is pushed, Err(_) is dropped.
broker_complete(c, ok, tr) ==
    /\ outcomes' = [outcomes EXCEPT ![c] =
                       Append(@, [tr EXCEPT !.result =
                                      ProcessResult(IF ok THEN "Ok" ELSE "Err",
                                                    tr.pointer, NoMessage)])]
    /\ handles' = [handles EXCEPT ![c] =
                      IF ok THEN Append(@, DeleteEntryFrom(tr.pointer)) ELSE @]
    /\ pc' = [pc EXCEPT ![c] = "b_next"]
    /\ idx' = [idx EXCEPT ![c] = @ + 1]
    /\ cur' = [cur EXCEPT ![c] = NoTrace]
    /\ pointer' = [pointer EXCEPT ![c] = NoPointer]
    /\ email' = [email EXCEPT ![c] = NoEmail]

\* match message_list { Ok(messages) => .., Err(error) => .. }: the messages
\* process_messages is given and where the loop goes on; an Err is logged and
\* gives Vec::new() without a call of process_messages.
\* A faulty variant: the error of the receive ends the loop.
match_message_list_mut_exit(polled) ==
    IF polled.ok
    THEN [messages |-> polled.messages, next |-> "b_next"]
    ELSE [messages |-> <<>>, next |-> "b_exited"]

match_message_list(polled) ==
    IF polled.ok
    THEN [messages |-> polled.messages, next |-> "b_next"]
    ELSE [messages |-> <<>>, next |-> "b_end"]

\* The top of the loop: get_sqs_email_messages answers.
broker_poll(c, polled) ==
    /\ pc[c] \in {"idle", "b_poll"}
    /\ cycles[c] < MaxCycles
    /\ batch' = [batch EXCEPT ![c] = match_message_list(polled).messages]
    /\ idx' = [idx EXCEPT ![c] = 1]
    /\ outcomes' = [outcomes EXCEPT ![c] = <<>>]
    /\ handles' = [handles EXCEPT ![c] = <<>>]
    /\ pc' = [pc EXCEPT ![c] = match_message_list(polled).next]
    /\ UNCHANGED <<store, transport, pointer, email, cur, received, call, host, deliveries>>

\* process_messages takes the next message: the pointer is parsed.
broker_process_message(c) ==
    /\ pc[c] = "b_next"
    /\ idx[c] <= Len(batch[c])
    /\ LET r == try_from(batch[c][idx[c]])
       IN IF ~r.ok
          THEN broker_complete(c, FALSE,
                               [Did(NoTrace, "try_from") EXCEPT !.parse = "err"])
          ELSE Continue(c, "b_get_email",
                        [Did(NoTrace, "try_from") EXCEPT !.parse = "ok",
                                                         !.pointer = r.pointer],
                        r.pointer, NoEmail)
    /\ UNCHANGED <<store, transport, batch, received, call, host, deliveries>>

\* get_email_message answers.
broker_get_email(c, fault) ==
    /\ pc[c] = "b_get_email"
    /\ LET g == broker_get_email_message(store, pointer[c], fault)
           tr == [Did(cur[c], "get_email_message") EXCEPT
                      !.fetch = IF g.ok THEN "ok" ELSE g.err]
       IN IF g.ok
          THEN Continue(c, "b_send", tr, pointer[c], g.email)
          ELSE broker_complete(c, FALSE, tr)
    /\ UNCHANGED <<store, transport, batch, received, call, host, deliveries>>

\* send_email answers.
broker_send(c) ==
    /\ pc[c] = "b_send"
    /\ LET ok == broker_send_email(email[c])
           tr == [Did(cur[c], "send_email") EXCEPT !.send = IF ok THEN "ok" ELSE "err"]
       IN broker_complete(c, ok, tr)
    /\ deliveries' = [deliveries EXCEPT ![pointer[c].email_id] = @ + 1]
    /\ UNCHANGED <<store, transport, batch, received, call, host>>

\* process_messages returns processed_message_handles.
broker_return(c) ==
    /\ pc[c] = "b_next"
    /\ idx[c] > Len(batch[c])
    /\ pc' = [pc EXCEPT ![c] = "b_end"]
    /\ UNCHANGED <<store, transport, batch, idx, pointer, email, cur, outcomes,
                   handles, received, call, host, deliveries>>

\* The bottom of the loop: the delete request is built and logged, not
\* sent; then the loop is left or started again.
broker_end(c) ==
    /\ pc[c] = "b_end"
    /\ cycles' = [cycles EXCEPT ![c] = @ + 1]
    /\ pc' = [pc EXCEPT ![c] = IF loop_exit(dry_run) THEN "b_exited" ELSE "b_poll"]
    /\ UNCHANGED <<store, transport, batch, idx, pointer, email, cur, outcomes,
                   handles, received, call, reply, deletes, dry_run, deliveries>>

\* The steps of broker c.
broker(c) ==
    \/ \E polled \in Polled : broker_poll(c, polled)
    \/ broker_process_message(c)
    \/ \E fault \in Faults : broker_get_email(c, fault)
    \/ broker_send(c)
    \/ broker_return(c)
    \/ broker_end(c)

InitBroker ==
    /\ store \in Stores
    /\ transport = "stub"
    /\ Idle
    /\ call = NoCall
    /\ dry_run \in BOOLEAN

NextBroker == \E c \in Consumers : broker(c)

SpecBroker == InitBroker /\ [][NextBroker]_vars

(***************************************************************************)
(* sqs_email_messages.rs: the iterator over the pointers of a list of      *)
(* received messages.                                                      *)
(***************************************************************************)

\* EmailPointerMessage::from_message(message)
from_message(message) ==
    LET r == try_from(message) IN IF r.ok THEN Some(r.pointer) ELSE None

\* Iterator::next for SqsEmailMessages, on the messages the iterator holds:
\* the Option it returns and the messages it is left with.
\* A faulty variant: a message that does not parse ends the call with None.
SqsEmailMessages_next_mut_no_skip(messages) ==
    IF messages = <<>>
    THEN [item |-> None, messages |-> messages]
    ELSE [item |-> from_message(Head(messages)), messages |-> Tail(messages)]

RECURSIVE SqsEmailMessages_next(_)
SqsEmailMessages_next(messages) ==
    IF messages = <<>>
    THEN [item |-> None, messages |-> messages]
    ELSE LET message == Head(messages)
             item == from_message(message)
         IN IF item # None
            THEN [item |-> item, messages |-> Tail(messages)]
            ELSE SqsEmailMessages_next(Tail(messages))

\* The lists an iterator is made of.
Lists == UNION { [1..n -> Pool] : n \in 0..MaxList }

\* The None values among what next returned so far.
Nones(returned) == Cardinality({ n \in 1..Len(returned) : returned[n] = None })

\* SqsEmailMessages::new(messages)
SqsEmailMessages_new(list) ==
    /\ call = NoCall
    /\ call' = [op |-> "SqsEmailMessages", list |-> list, messages |-> list,
                returned |-> <<>>]
    /\ UNCHANGED <<store, transport, pc, batch, idx, pointer, email, cur, outcomes,
                   handles, received, host, deliveries>>

\* iterator.next()
iterator_next ==
    /\ call.op = "SqsEmailMessages"
    /\ Nones(call.returned) < MaxNone
    /\ LET r == SqsEmailMessages_next(call.messages)
       IN call' = [call EXCEPT !.messages = r.messages,
                               !.returned = Append(@, r.item)]
    /\ UNCHANGED <<store, transport, pc, batch, idx, pointer, email, cur, outcomes,
                   handles, received, host, deliveries>>

NextIterator ==
    \/ \E list \in Lists : SqsEmailMessages_new(list)
    \/ iterator_next

SpecIterator == InitLibrary /\ [][NextIterator]_vars

(***************************************************************************)
(* Properties.                                                             *)
(***************************************************************************)

\* The messages consumer c has worked on in its current batch: the finished
\* ones and the one in progress.
Traces(c) ==
    { outcomes[c][i] : i \in 1..Len(outcomes[c]) }
        \cup (IF cur[c].steps # <<>> THEN {cur[c]} ELSE {})

\* The table answered the Pending -> Sending update (it was not unreachable).
SendingAnswered(t) == t.to_sending \in {"ok", "ConditionalCheckFailed"}

\* Two traces of different consumers race on one record: both fetched it as
\* Pending and both had their Pending -> Sending update answered.
Race(t, u) ==
    /\ t.pointer.email_id = u.pointer.email_id
    /\ t.status = Pending /\ u.status = Pending
    /\ SendingAnswered(t) /\ SendingAnswered(u)

StoredStatus(st, key) ==
    IF key \in DOMAIN st /\ st[key].present /\ st[key].EmailStatus # None
    THEN EmailStatus_from(st[key].EmailStatus[1])
    ELSE "none"

\* C2: set_email_status(key, from, to) returns Ok and leaves the stored
\* status at `to` only if the stored status was `from` when it was called
\* (and then nothing else in the table changed); when the status differs,
\* the record is absent or the table is unreachable it returns an error and
\* the table is unchanged.
C2_ConditionalTransition ==
    call.op = "set_email_status" =>
        /\ call.ok =>
              /\ StoredStatus(call.before, call.key) = call.from
              /\ StoredStatus(store, call.key) = call.to
              /\ \A k \in DOMAIN store :
                    /\ k # call.key => store[k] = call.before[k]
                    /\ store[k] = [call.before[k] EXCEPT !.EmailStatus = store[k].EmailStatus]
        /\ ~call.ok => store = call.before
        /\ (\/ StoredStatus(call.before, call.key) # call.from
            \/ call.fault # "none") => ~call.ok

C2_Witness ==
    /\ call.op = "set_email_status"
    /\ call.ok
    /\ call.from = Sending /\ call.to = Pending
    /\ store # call.before

\* C10: try_from succeeds exactly when the message has a message_id, a
\* receipt handle and a body, and the body parses as an EmailPointer; the
\* pointer then carries that message_id, that handle and the parsed
\* email_id.
C10_PointerExtraction ==
    call.op = "try_from" =>
        LET m == call.message
            wellFormed == /\ m.message_id # None
                          /\ m.receipt_handle # None
                          /\ m.body # None
                          /\ from_json(m.body[1]) # None
        IN /\ call.result.ok <=> wellFormed
           /\ call.result.ok =>
                 call.result.pointer =
                     [message_id |-> m.message_id[1],
                      handle |-> m.receipt_handle[1],
                      email_id |-> from_json(m.body[1])[1].email_id]

C10_Witness ==
    /\ call.op = "try_from"
    /\ call.result.ok
    /\ call.result.pointer = [message_id |-> "m2", handle |-> "h1", email_id |-> "e2"]

\* Results of process_message for which process_messages has to collect a
\* deletion entry.
Deletable == {"Ok", "Skip", "SkipMessage"}

\* C3: process_messages collects a deletion entry for each message whose
\* result is Ok (Delivered), Skip or SkipMessage and none for a message
\* whose result is Retry: the entries collected so far are as many as the
\* deletable results so far.
C3_EntryPerDeletableResult ==
    \A c \in Consumers :
        Len(handles[c]) =
            Cardinality({ i \in 1..Len(outcomes[c]) :
                            outcomes[c][i].result.kind \in Deletable })

\* Consumer c took a step of process_message; Finished(c): that step ended
\* the processing of its message, whose finished record is Last(c).
Stepped(c) == pc'[c] # pc[c]
Finished(c) == Len(outcomes'[c]) = Len(outcomes[c]) + 1
Last(c) == outcomes'[c][Len(outcomes'[c])]
StepTrace(c) == IF Finished(c) THEN Last(c) ELSE cur'[c]

\* C4: when the record of a well-formed pointer is fetched and its stored
\* status is not Pending, process_message returns Skip(pointer) right after
\* the fetch: one deletion entry (the pointer's) is collected, no update of
\* the status and no delivery is attempted, and the table is unchanged.
C4_SkipWhenNotPending ==
    [][\A c \in Consumers :
          (/\ pc[c] = "get_email" /\ Stepped(c)
           /\ StepTrace(c).fetch = "ok"
           /\ StoredStatus(store, pointer[c].email_id) # Pending)
          => /\ Finished(c)
             /\ Last(c).result = ProcessResult("Skip", pointer[c], NoMessage)
             /\ Last(c).steps = <<"try_from", "get_email_message">>
             /\ handles'[c] = Append(handles[c], DeleteEntryFrom(pointer[c]))
             /\ store' = store]_vars

C4_Witness ==
    \E c \in Consumers :
        /\ pc[c] = "returned"
        /\ Len(outcomes[c]) = 1
        /\ outcomes[c][1].status = Sent
        /\ outcomes[c][1].result.kind = "Skip"
        /\ handles[c] = <<[id |-> "m1", receipt_handle |-> "h1"]>>

\* C5: when the Pending -> Sending update fails (the condition did not hold
\* or the table was unreachable) after a fetch that saw Pending,
\* process_message returns Retry: delivery and the Sending -> Sent update
\* are not attempted and no deletion entry is collected.
C5_RetryWhenSendingFails ==
    [][\A c \in Consumers :
          (/\ pc[c] = "to_sending" /\ Stepped(c)
           /\ StepTrace(c).to_sending # "ok")
          => /\ Finished(c)
             /\ Last(c).status = Pending
             /\ Last(c).result.kind = "Retry"
             /\ Last(c).steps = <<"try_from", "get_email_message", "set_email_to_sending">>
             /\ Last(c).send = "none" /\ Last(c).to_sent = "none"
             /\ handles'[c] = handles[c]]_vars

C5_Witness ==
    \E c \in Consumers :
        /\ pc[c] = "returned"
        /\ Len(outcomes[c]) = 1
        /\ outcomes[c][1].to_sending = "ConditionalCheckFailed"
        /\ outcomes[c][1].result.kind = "Retry"
        /\ handles[c] = <<>>

\* C6: when delivery fails after a successful Pending -> Sending update,
\* process_message returns Retry: the Sending -> Sent update is not
\* attempted, no deletion entry is collected and the stored status stays
\* Sending.
C6_RetryWhenDeliveryFails ==
    [][\A c \in Consumers :
          (/\ pc[c] = "send" /\ Stepped(c)
           /\ StepTrace(c).send # "ok")
          => /\ Finished(c)
             /\ Last(c).to_sending = "ok"
             /\ Last(c).result.kind = "Retry"
             /\ Last(c).to_sent = "none"
             /\ Last(c).steps = <<"try_from", "get_email_message",
                                  "set_email_to_sending", "send_email">>
             /\ handles'[c] = handles[c]
             /\ StoredStatus(store, pointer[c].email_id) = Sending
             /\ store' = store]_vars

C6_Witness ==
    \E c \in Consumers :
        /\ pc[c] = "returned"
        /\ Len(outcomes[c]) = 1
        /\ outcomes[c][1].send = "err"
        /\ outcomes[c][1].result.kind = "Retry"
        /\ handles[c] = <<>>
        /\ StoredStatus(store, outcomes[c][1].pointer.email_id) = Sending

\* C7: when the Sending -> Sent update fails after a successful delivery,
\* process_message returns Retry and no deletion entry is collected.
C7_RetryWhenSentFails ==
    [][\A c \in Consumers :
          (/\ pc[c] = "to_sent" /\ Stepped(c)
           /\ StepTrace(c).to_sent # "ok")
          => /\ Finished(c)
             /\ Last(c).send = "ok"
             /\ Last(c).result.kind = "Retry"
             /\ handles'[c] = handles[c]]_vars

C7_Witness ==
    \E c \in Consumers :
        /\ pc[c] = "returned"
        /\ Len(outcomes[c]) = 1
        /\ outcomes[c][1].send = "ok"
        /\ outcomes[c][1].to_sent = "ServiceError"
        /\ outcomes[c][1].result.kind = "Retry"
        /\ handles[c] = <<>>

\* C8: process_message returns Ok(pointer) (Delivered) exactly when it
\* parsed the pointer, fetched the record as Pending, updated it to Sending,
\* delivered it and updated it to Sent, in this order and each
\* successfully; the step that returns Ok is this consumer's update of the
\* stored status from Sending to Sent.
AllStepsOk(t) ==
    /\ t.steps = <<"try_from", "get_email_message", "set_email_to_sending",
                   "send_email", "set_email_to_sent">>
    /\ t.parse = "ok" /\ t.fetch = "ok" /\ t.status = Pending
    /\ t.to_sending = "ok" /\ t.send = "ok" /\ t.to_sent = "ok"

C8_DeliveredIffAllSteps ==
    [][\A c \in Consumers :
          Finished(c) =>
              /\ Last(c).result.kind = "Ok" <=> AllStepsOk(Last(c))
              /\ Last(c).result.kind = "Ok" =>
                    /\ Last(c).result.pointer = try_from(batch[c][idx[c]]).pointer
                    /\ pc[c] = "to_sent"
                    /\ StoredStatus(store, pointer[c].email_id) = Sending
                    /\ StoredStatus(store', pointer[c].email_id) = Sent]_vars

C8_Witness ==
    \E c \in Consumers :
        /\ Len(outcomes[c]) = 1
        /\ outcomes[c][1].result.kind = "Ok"
        /\ AllStepsOk(outcomes[c][1])
        /\ StoredStatus(store, outcomes[c][1].pointer.email_id) = Sent

\* C9: when the pointer cannot be parsed from a message, process_message
\* returns SkipMessage carrying that message, and reads no record, updates
\* no status and delivers nothing for it.
C9_SkipMessageOnParseFailure ==
    \A c \in Consumers :
        \A i \in 1..Len(outcomes[c]) :
            LET t == outcomes[c][i]
                m == batch[c][i]
            IN (\/ m.message_id = None \/ m.receipt_handle = None \/ m.body = None
                \/ from_json(m.body[1]) = None)
               => /\ t.result = ProcessResult("SkipMessage", NoPointer, m)
                  /\ t.steps = <<"try_from">>
                  /\ t.fetch = "none" /\ t.to_sending = "none"
                  /\ t.send = "none" /\ t.to_sent = "none"

C9_Witness ==
    \E c \in Consumers :
        /\ pc[c] = "returned"
        /\ Len(outcomes[c]) = 1
        /\ batch[c][1].body = Some(JsonText("invalid", <<>>))
        /\ outcomes[c][1].result.kind = "SkipMessage"
        /\ outcomes[c][1].result.message = batch[c][1]

\* C11: try_from fails for a message whose body parses as an EmailPointer
\* with an empty email_id.
C11_EmptyKeyRejected ==
    call.op = "try_from" =>
        LET m == call.message
            parsed == IF m.body = None THEN None ELSE from_json(m.body[1])
        IN (parsed # None /\ parsed[1].email_id = "") => ~call.result.ok

\* The handler's error categories.
EmailHandlerErrors == {BatchFailure, PartialBatchFailure, SqsDeleteFailed}

\* The records of c's event that ended with an entry pushed to
\* entries_to_delete: processed to the end ("Ok") or found not Pending
\* ("Skip").
Pushed(c) == { i \in 1..Len(outcomes[c]) : outcomes[c][i].result.kind \in {"Ok", "Skip"} }

\* The counts of the example of C12, given to the handler's two decisions:
\* five records and four entries are no success, and with the delete
\* request answered they are a PartialBatchFailure.
C12_Example ==
    /\ ~handler_success(5, 4)
    /\ handler_error(TRUE, 4) = PartialBatchFailure

\* C12: when the handler has returned, it returned Ok exactly when the
\* number of deletion entries it collected equals the number of records it
\* received, and one of the error categories for any other count; the
\* entries collected are as many as the records processed to the end or
\* skipped as not Pending.
C12_SuccessIffAllDeletable ==
    \A c \in Consumers :
        pc[c] = "l_returned" =>
            /\ C12_Example
            /\ Len(handles[c]) = Cardinality(Pushed(c))
            /\ reply[c] = "Ok" <=> Len(handles[c]) = Len(batch[c])
            /\ reply[c] # "Ok" => reply[c] \in EmailHandlerErrors

C12_Witness ==
    \E c \in Consumers :
        /\ pc[c] = "l_returned"
        /\ Len(batch[c]) = 2
        /\ outcomes[c][1].result.kind = "Ok"
        /\ outcomes[c][2].result.kind = "Continue"
        /\ Len(handles[c]) = 1
        /\ reply[c] = PartialBatchFailure

\* C13: when the handler has returned an error, the error is SqsDeleteFailed
\* if delete_message_batch failed, whatever the number of entries;
\* otherwise BatchFailure if no entry was collected and PartialBatchFailure
\* if at least one (and not all) was.
C13_FailureCategory ==
    \A c \in Consumers :
        (pc[c] = "l_returned" /\ reply[c] # "Ok") =>
            /\ Len(deletes[c]) = 1
            /\ Len(handles[c]) # Len(batch[c])
            /\ LET delete_response == deletes[c][1].response IN
               /\ delete_response \in {"ok", "err"}
               /\ delete_response = "err" => reply[c] = SqsDeleteFailed
               /\ (delete_response = "ok" /\ Len(handles[c]) = 0)
                      => reply[c] = BatchFailure
               /\ (delete_response = "ok" /\ Len(handles[c]) > 0)
                      => /\ reply[c] = PartialBatchFailure
                         /\ Len(handles[c]) < Len(batch[c])

C13_Witness ==
    \E c \in Consumers :
        /\ pc[c] = "l_returned"
        /\ reply[c] = SqsDeleteFailed
        /\ Len(handles[c]) = 1
        /\ Len(batch[c]) = 2

\* C14: the handler returns an error only after it has sent one
\* delete_message_batch request, whose entries are exactly the entries
\* collected; these include the entry of every record processed to the end
\* or skipped as not Pending.  While the request is awaited nothing has
\* been returned yet.
C14_DeleteBeforeFailure ==
    [][\A c \in Consumers :
          /\ (reply'[c] \in EmailHandlerErrors /\ reply[c] # reply'[c])
                 => /\ pc[c] = "l_delete"
                    /\ reply[c] = "none"
                    /\ Len(deletes[c]) = 1
                    /\ deletes[c][1].entries = handles[c]
                    /\ deletes'[c][1].entries = handles'[c]
                    /\ \A i \in Pushed(c) :
                          \E j \in 1..Len(deletes[c][1].entries) :
                              deletes[c][1].entries[j] =
                                  DeleteEntryFrom(outcomes[c][i].pointer)
          /\ (pc'[c] = "l_delete" /\ pc[c] # "l_delete")
                 => /\ Len(handles[c]) # Len(batch[c])
                    /\ deletes'[c] = <<[entries |-> handles[c], response |-> "pending"]>>
      ]_vars

C14_Witness ==
    \E c \in Consumers :
        /\ pc[c] = "l_returned"
        /\ reply[c] = PartialBatchFailure
        /\ outcomes[c][1].result.kind = "Skip"
        /\ outcomes[c][2].result.kind = "Continue"
        /\ deletes[c] = <<[entries |-> <<DeleteEntryFrom(outcomes[c][1].pointer)>>,
                           response |-> "ok"]>>

\* C15 as stated: processing a pointer whose record is stored as Sent ends
\* with Skip(pointer) and without a delivery.
C15_ReplayAlwaysSkips ==
    [][\A c \in Consumers :
          (/\ pc[c] = "get_email" /\ Stepped(c)
           /\ StoredStatus(store, pointer[c].email_id) = Sent)
          => /\ Finished(c)
             /\ Last(c).result = ProcessResult("Skip", pointer[c], NoMessage)
             /\ Last(c).send = "none"]_vars

\* C15: processing a pointer whose record is stored as Sent ends right after
\* the fetch, every time it is done: with Skip(pointer) when the table
\* answers the fetch and with Retry when it does not; in both cases the
\* status is not updated, the delivery collaborator is not invoked and the
\* table is unchanged, so the record stays Sent for the next replay.
C15_ReplaySkipsOrRetries ==
    [][\A c \in Consumers :
          (/\ pc[c] = "get_email" /\ Stepped(c)
           /\ StoredStatus(store, pointer[c].email_id) = Sent)
          => /\ Finished(c)
             /\ Last(c).result =
                   IF Last(c).fetch = "ok"
                   THEN ProcessResult("Skip", pointer[c], NoMessage)
                   ELSE ProcessResult("Retry", NoPointer, NoMessage)
             /\ Last(c).steps = <<"try_from", "get_email_message">>
             /\ Last(c).to_sending = "none" /\ Last(c).send = "none"
             /\ Last(c).to_sent = "none"
             /\ store' = store
             /\ StoredStatus(store', pointer[c].email_id) = Sent]_vars

\* A message is delivered and then processed again by the same consumer.
C15_Witness ==
    \E c \in Consumers :
        /\ Len(outcomes[c]) = 2
        /\ outcomes[c][1].result.kind = "Ok"
        /\ outcomes[c][1].send = "ok"
        /\ outcomes[c][2].pointer = outcomes[c][1].pointer
        /\ outcomes[c][2].status = Sent
        /\ outcomes[c][2].result.kind = "Skip"
        /\ outcomes[c][2].send = "none"

\* C16: every step of the pipeline that changes a stored status changes it
\* from Pending to Sending or from Sending to Sent: it never moves back,
\* never goes from Pending to Sent at once, and the value written is never
\* one that parses as Unknown.
C16_LegalTransitions ==
    [][\A k \in RecordKeys :
          store'[k].EmailStatus # store[k].EmailStatus
             => /\ \/ /\ StoredStatus(store, k) = Pending
                      /\ StoredStatus(store', k) = Sending
                   \/ /\ StoredStatus(store, k) = Sending
                      /\ StoredStatus(store', k) = Sent
                /\ store'[k].EmailStatus \in {Some("Sending"), Some("Sent")}]_vars

\* One record has gone Pending -> Sending -> Sent in the hands of one host.
C16_Witness ==
    \E c \in Consumers :
        /\ Len(outcomes[c]) >= 1
        /\ outcomes[c][1].status = Pending
        /\ outcomes[c][1].to_sending = "ok"
        /\ outcomes[c][1].to_sent = "ok"
        /\ StoredStatus(store, outcomes[c][1].pointer.email_id) = Sent

\* The calls that update a status, by the state of the host making them.
Updating == {"to_sending", "to_sent", "l_to_sending", "l_to_sent"}

\* C17: the only thing a step changes in the table is the EmailStatus of the
\* record named by the pointer of the host that makes an update call: no
\* record appears or disappears, no EmailId or Subject changes, no other
\* record's status changes, and a fetch changes nothing.
C17_OnlyPointedStatusChanges ==
    [][/\ DOMAIN store' = DOMAIN store
       /\ \A k \in RecordKeys :
             /\ store'[k].present = store[k].present
             /\ store'[k].EmailId = store[k].EmailId
             /\ store'[k].Subject = store[k].Subject
             /\ store'[k] # store[k]
                   => \E c \in Consumers :
                         /\ Stepped(c)
                         /\ pc[c] \in Updating
                         /\ pointer[c].email_id = k
       /\ \A c \in Consumers :
             (Stepped(c) /\ pc[c] \notin Updating) => store' = store]_vars

\* A host has updated e2's status and e1, stored next to it, is as it was.
C17_Witness ==
    \E c \in Consumers :
        /\ Len(outcomes[c]) = 1
        /\ outcomes[c][1].pointer.email_id = "e2"
        /\ outcomes[c][1].to_sending = "ok"
        /\ store["e2"] = Item(Some("e2"), Some("subject"), Some("Sending"))
        /\ store["e1"] = Item(Some("e1"), Some("subject"), Some("Pending"))

\* A host holds record k: its Pending -> Sending update of k succeeded and
\* it has not finished with that message yet.
Holds(c, k) ==
    /\ pc[c] \in {"send", "to_sent", "l_to_sent"}
    /\ pointer[c].email_id = k
    /\ cur[c].to_sending = "ok"

\* Record k is stored as Sending and no host holds it: whoever set it has
\* finished its pass (or was gone before the run).
Stranded(k) ==
    /\ StoredStatus(store, k) = Sending
    /\ \A c \in Consumers : ~Holds(c, k)

\* C18: once a record is stored as Sending and no host holds it, no step
\* changes it: it stays Sending, every later Pending -> Sending update of
\* it fails, and no Sending -> Sent update of it is attempted.
C18_StrandedInSending ==
    [][\A k \in RecordKeys :
          Stranded(k)
             => /\ store'[k] = store[k]
                /\ \A c \in Consumers : ~Holds(c, k)'
                /\ \A c \in Consumers :
                      (Stepped(c) /\ pointer[c].email_id = k)
                         => /\ StepTrace(c).to_sending # "ok"
                            /\ StepTrace(c).to_sent = "none"]_vars

\* A host marked e1 Sending and gave up; a later pass found it Sending and
\* skipped it.
C18_Witness ==
    \E c \in Consumers, d \in Consumers :
        /\ Len(outcomes[c]) >= 1 /\ Len(outcomes[d]) >= 1
        /\ LET t == outcomes[c][1]
               u == outcomes[d][Len(outcomes[d])]
           IN /\ t # u
              /\ t.to_sending = "ok" /\ t.to_sent # "ok"
              /\ u.pointer.email_id = t.pointer.email_id
              /\ u.status = Sending /\ u.result.kind = "Skip"
              /\ Stranded(t.pointer.email_id)

\* C19: with --dry-run a broker leaves its loop at the bottom of its first
\* pass, whatever was polled and however the processing went, and never
\* starts a second pass; without it the bottom of every pass leads back to
\* the top and the loop is never left.  Until it has left the loop (and
\* within the passes followed) a broker always has a next step.
C19_OnePassOrForever ==
    [][\A c \in Consumers :
          /\ (pc[c] = "b_end" /\ Stepped(c))
                => /\ cycles'[c] = cycles[c] + 1
                   /\ pc'[c] = IF dry_run THEN "b_exited" ELSE "b_poll"
          /\ pc'[c] = "b_exited" => (dry_run /\ cycles'[c] = 1)
          /\ dry_run => cycles'[c] <= 1
          /\ pc[c] = "b_exited" => (pc'[c] = "b_exited" /\ cycles'[c] = cycles[c])
          /\ (pc[c] # "b_exited" /\ cycles[c] < MaxCycles) => ENABLED broker(c)
          /\ (pc'[c] # "b_exited" /\ cycles'[c] < MaxCycles) => (ENABLED broker(c))'
      ]_vars

\* A dry run has left the loop after one pass in which a message was
\* received and processed.
C19_Witness ==
    \E c \in Consumers :
        /\ dry_run
        /\ pc[c] = "b_exited"
        /\ cycles[c] = 1
        /\ Len(outcomes[c]) = 1

\* C20: with --dry-run no broker invokes send_email and no delete request
\* is sent to the queue.
C20_DryRunSendsNothing ==
    dry_run =>
        \A c \in Consumers :
            /\ \A t \in Traces(c) : t.send = "none"
            /\ deletes[c] = <<>>

\* The calls process_message makes for one message, in the order of the code.
StepNames ==
    <<"try_from", "get_email_message", "set_email_to_sending", "send_email",
      "set_email_to_sent">>

\* The calls of trace t are the first ones of StepNames, each made once.
InOrderOnce(t) ==
    /\ Len(t.steps) <= Len(StepNames)
    /\ \A n \in 1..Len(t.steps) : t.steps[n] = StepNames[n]

\* No call of trace t follows a call that failed.
StopsAtFailure(t) ==
    /\ t.parse = "err" => Len(t.steps) = 1
    /\ t.fetch \notin {"none", "ok"} => Len(t.steps) = 2
    /\ t.to_sending \notin {"none", "ok"} => Len(t.steps) = 3
    /\ t.send = "err" => Len(t.steps) = 4

C22_RetryWhenFetchFails ==
    [][\A c \in Consumers :
          (/\ pc[c] = "get_email" /\ Stepped(c)
           /\ StepTrace(c).fetch # "ok")
          => /\ Finished(c)
             /\ Last(c).fetch \in {"RecordNotFound", "PropertyMissing(EmailId)",
                                    "PropertyMissing(Subject)",
                                    "PropertyMissing(EmailStatus)", "ServiceError"}
             /\ Last(c).result = ProcessResult("Retry", NoPointer, NoMessage)
             /\ Last(c).steps = <<"try_from", "get_email_message">>
             /\ Last(c).to_sending = "none" /\ Last(c).send = "none"
             /\ Last(c).to_sent = "none"
             /\ store' = store
             /\ deliveries' = deliveries
             /\ handles'[c] = handles[c]]_vars

\* A pass over a record without Subject and a record the table did not
\* answer for: two Retry results and no entry.
C22_Witness ==
    \E c \in Consumers :
        /\ pc[c] = "returned"
        /\ Len(outcomes[c]) = 2
        /\ outcomes[c][1].fetch = "PropertyMissing(Subject)"
        /\ outcomes[c][2].fetch = "ServiceError"
        /\ outcomes[c][1].result.kind = "Retry"
        /\ outcomes[c][2].result.kind = "Retry"
        /\ handles[c] = <<>>

\* The attributes of a raw item that EmailMessage::try_from needs, in the
\* order it reads them, and the first of them that is no string.
Required == <<"EmailId", "Subject", "EmailStatus">>
IsString(item, n) == item[Required[n]].kind = "S"
FirstMissing(item) ==
    CHOOSE n \in 1..Len(Required) :
        /\ ~IsString(item, n)
        /\ \A m \in 1..(n - 1) : IsString(item, m)

\* C23: EmailMessage::try_from fails with RecordNotFound when the output
\* carries no item; otherwise with PropertyMissing naming the first of
\* EmailId, Subject, EmailStatus that is not present as a string; and it
\* succeeds exactly when all three are strings, with the stored EmailId and
\* Subject and the EmailStatus parsed from its string.
C23_DeserializeRecord ==
    call.op = "EmailMessage_try_from" =>
        LET r == call.result IN
        IF call.raw = None
        THEN ~r.ok /\ r.err = "RecordNotFound"
        ELSE LET item == call.raw[1]
                 complete == \A n \in 1..Len(Required) : IsString(item, n)
             IN /\ r.ok <=> complete
                /\ complete =>
                      r.email = [email_id |-> item.EmailId.v,
                                 subject |-> item.Subject.v,
                                 status |-> EmailStatus_from(item.EmailStatus.v)]
                /\ ~complete =>
                      r.err = CASE FirstMissing(item) = 1 -> "PropertyMissing(EmailId)"
                                [] FirstMissing(item) = 2 -> "PropertyMissing(Subject)"
                                [] FirstMissing(item) = 3 -> "PropertyMissing(EmailStatus)"

\* An item without Subject and without EmailStatus: Subject is the one named.
C23_Witness ==
    /\ call.op = "EmailMessage_try_from"
    /\ call.raw # None
    /\ call.raw[1].EmailId.kind = "S"
    /\ call.raw[1].Subject.kind = "N"
    /\ call.raw[1].EmailStatus.kind = "absent"
    /\ call.result.err = "PropertyMissing(Subject)"

\* C24: with Client::send_email as it is written (it always fails), a
\* Pending -> Sending update that finds the record Pending and the table
\* answering succeeds and leads to the delivery; the delivery is invoked
\* once and fails, process_message returns Retry without a deletion entry
\* and the record is left Sending; so no result is ever Ok(pointer) and no
\* record becomes Sent.
C24_StubAlwaysRetries ==
    [][transport = "stub" =>
          /\ \A c \in Consumers :
                /\ (/\ pc[c] = "to_sending" /\ Stepped(c)
                    /\ StoredStatus(store, pointer[c].email_id) = Pending
                    /\ StepTrace(c).to_sending # "ServiceError")
                   => /\ StepTrace(c).to_sending = "ok"
                      /\ StoredStatus(store', pointer[c].email_id) = Sending
                      /\ pc'[c] = "send"
                /\ (pc[c] = "send" /\ Stepped(c))
                   => /\ Finished(c)
                      /\ Last(c).send = "err"
                      /\ Last(c).result = ProcessResult("Retry", NoPointer, NoMessage)
                      /\ Last(c).steps = SubSeq(StepNames, 1, 4)
                      /\ deliveries'[pointer[c].email_id] =
                             deliveries[pointer[c].email_id] + 1
                      /\ handles'[c] = handles[c]
                      /\ StoredStatus(store', pointer[c].email_id) = Sending
                /\ \A n \in 1..Len(outcomes'[c]) : outcomes'[c][n].result.kind # "Ok"
          /\ \A k \in RecordKeys :
                StoredStatus(store', k) = Sent => StoredStatus(store, k) = Sent]_vars

\* One Pending record processed with the stub: Retry, no entry, left Sending.
C24_Witness ==
    \E c \in Consumers :
        /\ transport = "stub"
        /\ pc[c] = "returned"
        /\ Len(outcomes[c]) = 1
        /\ outcomes[c][1].status = Pending
        /\ outcomes[c][1].to_sending = "ok"
        /\ outcomes[c][1].send = "err"
        /\ outcomes[c][1].result.kind = "Retry"
        /\ handles[c] = <<>>
        /\ deliveries[outcomes[c][1].pointer.email_id] = 1
        /\ StoredStatus(store, outcomes[c][1].pointer.email_id) = Sending

\* The place in processed_message_handles of the entry of c's i-th message,
\* when its result is one that collects an entry.
EntryOf(c, i) ==
    Cardinality({ j \in 1..i : outcomes[c][j].result.kind \in Deletable })

\* C25: every entry of processed_message_handles is the entry of one message
\* whose result is Ok, Skip or SkipMessage, in the order of the batch, and
\* carries the message_id and the receipt handle of that raw message (for
\* SkipMessage, where there is no pointer, too).
C25_EntryOfRawMessage ==
    \A c \in Consumers :
        /\ Len(handles[c]) <= EntryOf(c, Len(outcomes[c]))
        /\ \A i \in 1..Len(outcomes[c]) :
              (/\ outcomes[c][i].result.kind \in Deletable
               /\ EntryOf(c, i) <= Len(handles[c]))
              => /\ batch[c][i].message_id # None
                 /\ batch[c][i].receipt_handle # None
                 /\ handles[c][EntryOf(c, i)] =
                        [id |-> batch[c][i].message_id[1],
                         receipt_handle |-> batch[c][i].receipt_handle[1]]

\* A body that is no JSON, then a record that is not Pending: two entries,
\* the first with the raw message's own id and handle.
C25_Witness ==
    \E c \in Consumers :
        /\ pc[c] = "returned"
        /\ Len(outcomes[c]) = 2
        /\ outcomes[c][1].result.kind = "SkipMessage"
        /\ outcomes[c][2].result.kind = "Skip"
        /\ handles[c] = <<[id |-> "m3", receipt_handle |-> "h3"],
                           [id |-> batch[c][2].message_id[1],
                            receipt_handle |-> batch[c][2].receipt_handle[1]]>>

\* What try_from answered for the n-th message of c's batch, as the pass
\* recorded it.
Extracted(c, n) == [parse |-> outcomes[c][n].parse, pointer |-> outcomes[c][n].pointer]

C27_MalformedIsCollected ==
    \A c \in Consumers :
        Len(handles[c]) =
            Cardinality(Pushed(c)
                          \cup { n \in 1..Len(outcomes[c]) : outcomes[c][n].parse = "err" })

\* The pointers of the messages of a list that parse, in the order of the
\* list.
RECURSIVE Parsable(_)
Parsable(list) ==
    IF list = <<>> THEN <<>>
    ELSE IF try_from(Head(list)).ok
         THEN <<try_from(Head(list)).pointer>> \o Parsable(Tail(list))
         ELSE Parsable(Tail(list))

\* The pointers among what next returned, in the order they were returned.
RECURSIVE Items(_)
Items(returned) ==
    IF returned = <<>> THEN <<>>
    ELSE IF Head(returned) = None THEN Items(Tail(returned))
         ELSE <<Head(returned)[1]>> \o Items(Tail(returned))

\* C28: the messages an iterator holds are always a tail of its list, and
\* the pointers next has returned are those of the parsable messages of the
\* part taken off, in order; next returns None only when the list is used
\* up, everything it returns after a None is None, and then the pointers
\* returned are those of all parsable messages of the list; a call of next
\* always returns.
C28_IteratorYieldsParsable ==
    call.op = "SqsEmailMessages" =>
        LET taken == Len(call.list) - Len(call.messages) IN
        /\ taken >= 0
        /\ call.messages = SubSeq(call.list, taken + 1, Len(call.list))
        /\ Items(call.returned) = Parsable(SubSeq(call.list, 1, taken))
        /\ \A n \in 1..Len(call.returned) :
              call.returned[n] = None
                 => /\ call.messages = <<>>
                    /\ Items(SubSeq(call.returned, 1, n)) = Parsable(call.list)
                    /\ \A m \in n..Len(call.returned) : call.returned[m] = None
        /\ Nones(call.returned) < MaxNone => ENABLED iterator_next

\* A list of a message that does not parse between two that do: both
\* pointers in order, then None twice.
C28_Witness ==
    /\ call.op = "SqsEmailMessages"
    /\ Len(call.list) = 3
    /\ try_from(call.list[1]).ok /\ ~try_from(call.list[2]).ok
    /\ try_from(call.list[3]).ok
    /\ call.returned = <<Some(try_from(call.list[1]).pointer),
                          Some(try_from(call.list[3]).pointer), None, None>>

\* The trace observed a status other than Pending, or lost the
\* Pending -> Sending race.
Loser(t) ==
    \/ t.fetch = "ok" /\ t.status # Pending
    \/ t.to_sending = "ConditionalCheckFailed"

\* C29: whatever the consumers, their batches and the redeliveries, the
\* delivery collaborator is invoked at most once for a record, and a pass
\* that lost the Pending -> Sending race or fetched the record with a status
\* other than Pending has not invoked it.
C29_DeliveredAtMostOnce ==
    /\ \A k \in RecordKeys : deliveries[k] <= 1
    /\ \A c \in Consumers : \A t \in Traces(c) : Loser(t) => t.send = "none"

\* Two consumers raced for a record: the winner invoked delivery, the
\* loser finished its pass without invoking it.
C29_Witness ==
    \E c \in Consumers, d \in Consumers :
        /\ c # d
        /\ \E t \in Traces(c), u \in Traces(d) :
              /\ Race(t, u)
              /\ t.to_sending = "ok" /\ t.send # "none"
              /\ u.to_sending = "ConditionalCheckFailed" /\ u.send = "none"
              /\ u.result.kind = "Retry"
              /\ deliveries[t.pointer.email_id] = 1

\* C30: a step that invokes the delivery collaborator for a record is taken
\* by a consumer whose current pass fetched the record as Pending and had
\* its Pending -> Sending update succeed, while the stored status is
\* Sending (not Pending, Sent or Unknown); no other step invokes it.
C30_DeliveryOnlyWhileSending ==
    [][\A k \in RecordKeys :
          deliveries'[k] # deliveries[k] =>
              /\ deliveries'[k] = deliveries[k] + 1
              /\ StoredStatus(store, k) = Sending
              /\ StoredStatus(store, k) \notin {Pending, Sent, Unknown}
              /\ \E c \in Consumers :
                    /\ pc[c] = "send" /\ Stepped(c)
                    /\ pointer[c].email_id = k
                    /\ cur[c].pointer.email_id = k
                    /\ cur[c].status = Pending
                    /\ cur[c].to_sending = "ok"
                    /\ \A d \in Consumers \ {c} : ~Stepped(d)]_vars

\* Delivery was invoked and answered Ok; the record is still Sending and
\* the consumer is about to mark it Sent.
C30_Witness ==
    \E c \in Consumers :
        /\ pc[c] = "to_sent"
        /\ cur[c].to_sending = "ok" /\ cur[c].send = "ok"
        /\ StoredStatus(store, pointer[c].email_id) = Sending
        /\ deliveries[pointer[c].email_id] = 1

\* C31: process_messages completes for every batch, also one with messages
\* that lack a message_id or a receipt handle: it never aborts while it
\* builds the deletion entry of a SkipMessage result.
C31_NeverPanics ==
    \A c \in Consumers : pc[c] # "panicked"

\* The queue entries that reference record k, and the entries whose
\* deletion a returned process_messages has asked for.
QueueEntries(k) ==
    { m \in Pool : try_from(m).ok /\ try_from(m).pointer.email_id = k }
Requested(m) ==
    \E c \in Consumers :
        /\ pc[c] = "returned"
        /\ \E i \in 1..Len(handles[c]) : Some(handles[c][i].id) = m.message_id
Processing(k) ==
    \E c \in Consumers :
        /\ pc[c] \notin {"idle", "returned", "panicked"}
        /\ \/ cur[c].pointer.email_id = k
           \/ \E i \in idx[c]..Len(batch[c]) : batch[c][i] \in QueueEntries(k)

\* C32: no email is dropped: whenever the stored status of a record is
\* Pending or Sending and no consumer is working on it, some queue entry
\* that references the record has not been requested for deletion.
C32_NoEmailDropped ==
    \A k \in RecordKeys :
        (StoredStatus(store, k) \in {Pending, Sending} /\ ~Processing(k))
            => \E m \in QueueEntries(k) : ~Requested(m)

\* The record under key k does not exist or lacks one of the attributes an
\* EmailMessage is made of.
Unreadable(k) ==
    \/ ~store[k].present
    \/ store[k].EmailId = None
    \/ store[k].Subject = None
    \/ store[k].EmailStatus = None

\* C33: a well-formed message whose record does not exist or lacks a
\* required attribute yields Retry on every pass, the first and the
\* redelivered ones: its pass ends at the fetch, and no deletion entry for
\* it is collected.
C33_RetryWhileRecordUnreadable ==
    \A c \in Consumers :
        /\ \A i \in 1..Len(outcomes[c]) :
              LET o == outcomes[c][i] IN
              (o.parse = "ok" /\ Unreadable(o.pointer.email_id))
                  => /\ o.result.kind = "Retry"
                     /\ o.to_sending = "none" /\ o.send = "none"
                     /\ \A j \in 1..Len(handles[c]) :
                           handles[c][j].id # o.pointer.message_id
        /\ (cur[c].parse = "ok" /\ Unreadable(cur[c].pointer.email_id))
              => cur[c].to_sending = "none"

\* A message whose record lacks an attribute was processed, redelivered and
\* processed again with the table reachable: Retry both times, nothing to
\* delete.
C33_Witness ==
    \E c \in Consumers :
        /\ pc[c] = "returned"
        /\ Len(outcomes[c]) = 2
        /\ batch[c][1] = batch[c][2]
        /\ \A i \in 1..2 :
              /\ outcomes[c][i].parse = "ok"
              /\ outcomes[c][i].fetch = "PropertyMissing(Subject)"
              /\ outcomes[c][i].result.kind = "Retry"
        /\ store[outcomes[c][1].pointer.email_id].present
        /\ handles[c] = <<>>

\* entries is a sub-sequence of the deletion entries of messages: its
\* entries are those of some of the messages, in the messages' order, each
\* message used at most once.
RECURSIVE IsSubSequence(_, _)
IsSubSequence(entries, messages) ==
    IF entries = <<>> THEN TRUE
    ELSE IF messages = <<>> THEN FALSE
    ELSE IF /\ Some(Head(entries).id) = Head(messages).message_id
            /\ Some(Head(entries).receipt_handle) = Head(messages).receipt_handle
         THEN IsSubSequence(Tail(entries), Tail(messages))
         ELSE IsSubSequence(entries, Tail(messages))

\* C34: the messages of a batch are processed one after the other in the
\* order of the batch, and each adds at most one deletion entry: the i-th
\* finished pass is that of the i-th message, the message in progress is
\* the next one, and the entries collected so far are an order-preserving
\* sub-sequence of the messages processed so far, so never more than these.
C34_EntriesFollowBatchOrder ==
    \A c \in Consumers :
        LET done == Len(outcomes[c]) IN
        /\ done <= Len(batch[c])
        /\ pc[c] # "panicked" => idx[c] = done + 1
        /\ \A i \in 1..done :
              IF outcomes[c][i].parse = "ok"
              THEN Some(outcomes[c][i].pointer.message_id) = batch[c][i].message_id
              ELSE outcomes[c][i].result.message = batch[c][i]
        /\ cur[c].parse = "ok"
              => /\ idx[c] <= Len(batch[c])
                 /\ Some(cur[c].pointer.message_id) = batch[c][idx[c]].message_id
        /\ Len(handles[c]) <= done
        /\ IsSubSequence(handles[c], SubSeq(batch[c], 1, done))

\* A batch of two different messages, the first retried and the second
\* deletable: the list returned is the second message's entry alone.
C34_Witness ==
    \E c \in Consumers :
        /\ pc[c] = "returned"
        /\ Len(batch[c]) = 2 /\ Len(outcomes[c]) = 2
        /\ batch[c][1].message_id # batch[c][2].message_id
        /\ outcomes[c][1].result.kind = "Retry"
        /\ outcomes[c][2].result.kind \in {"Ok", "Skip"}
        /\ handles[c] = <<[id |-> batch[c][2].message_id[1],
                            receipt_handle |-> batch[c][2].receipt_handle[1]]>>

\* C35: the handler sends the delete_message_batch request exactly when the
\* number of entries it collected differs from the number of records it
\* received, and sends it once, after the loop; when the two are equal it
\* sends no request and returns Ok.
C35_DeleteIffCountsDiffer ==
    \A c \in Consumers :
        /\ pc[c] \in {"l_next", "l_get_email", "l_to_sending", "l_to_sent"}
              => deletes[c] = <<>>
        /\ pc[c] \in {"l_delete", "l_returned"}
              => /\ Len(deletes[c]) <= 1
                 /\ Len(deletes[c]) = 1 <=> Len(handles[c]) # Len(batch[c])
                 /\ Len(handles[c]) = Len(batch[c])
                        => (pc[c] = "l_returned" /\ reply[c] = "Ok")

\* Two records, both processed to the end: two entries, no delete request,
\* Ok.
C35_Witness ==
    \E c \in Consumers :
        /\ pc[c] = "l_returned"
        /\ Len(batch[c]) = 2 /\ Len(handles[c]) = 2
        /\ \A i \in 1..2 : outcomes[c][i].result.kind = "Ok"
        /\ deletes[c] = <<>>
        /\ reply[c] = "Ok"

\* C36: an event without records is a success: the handler returns Ok,
\* sends no delete request and reports none of BatchFailure,
\* PartialBatchFailure and SqsDeleteFailed.
C36_EmptyBatchSucceeds ==
    \A c \in Consumers :
        (pc[c] \in {"l_delete", "l_returned"} /\ batch[c] = <<>>)
            => /\ pc[c] = "l_returned"
               /\ reply[c] = "Ok"
               /\ reply[c] \notin EmailHandlerErrors
               /\ deletes[c] = <<>>
               /\ outcomes[c] = <<>> /\ handles[c] = <<>>

C36_Witness ==
    \E c \in Consumers :
        /\ pc[c] = "l_returned"
        /\ batch[c] = <<>>
        /\ reply[c] = "Ok"
        /\ deletes[c] = <<>>

\* get_sqs_email_messages answered Err.
ReceiveFailed == [ok |-> FALSE, messages |-> <<>>]

\* C37: a receive that fails is handled like an empty batch: the pass goes
\* straight to the bottom of the loop with no message processed and no
\* entry for the delete request, the table and the delivery counts are
\* untouched, and from there the loop starts its next pass, or is left in
\* a dry run; the top of the loop never ends the broker.
C37_FailedReceiveIsEmptyBatch ==
    [][\A c \in Consumers :
          /\ broker_poll(c, ReceiveFailed)
                => /\ pc'[c] = "b_end"
                   /\ batch'[c] = <<>>
                   /\ outcomes'[c] = <<>> /\ cur'[c] = NoTrace
                   /\ handles'[c] = <<>>
                   /\ store' = store /\ deliveries' = deliveries
                   /\ (ENABLED broker_end(c))'
          /\ (pc[c] \in {"idle", "b_poll"} /\ Stepped(c))
                => pc'[c] \in {"b_next", "b_end"}
          /\ (pc[c] = "b_end" /\ batch[c] = <<>> /\ Stepped(c))
                => /\ pc'[c] = IF dry_run THEN "b_exited" ELSE "b_poll"
                   /\ handles'[c] = <<>> /\ outcomes'[c] = <<>>
                   /\ store' = store /\ deliveries' = deliveries
      ]_vars

\* A broker that is no dry run is at the bottom of its second pass with
\* nothing received and nothing to delete, the table as it was.
C37_Witness ==
    \E c \in Consumers :
        /\ ~dry_run
        /\ pc[c] = "b_end"
        /\ cycles[c] = 1
        /\ batch[c] = <<>> /\ outcomes[c] = <<>> /\ handles[c] = <<>>
        /\ \A k \in RecordKeys : deliveries[k] = 0

\* C38: parsing a stored status string gives Pending for "Pending", Sending
\* for "Sending" and Sent for "Sent", and Unknown for every other string,
\* among them the same words in another letter case and the empty string;
\* there is no string for which it gives no status.
C38_StatusParsing ==
    call.op = "EmailStatus_from" =>
        /\ call.result \in {Pending, Sending, Sent, Unknown}
        /\ call.result = Pending <=> call.status = "Pending"
        /\ call.result = Sending <=> call.status = "Sending"
        /\ call.result = Sent <=> call.status = "Sent"
        /\ call.result = Unknown <=> call.status \notin {"Pending", "Sending", "Sent"}

C38_Witness ==
    /\ call.op = "EmailStatus_from"
    /\ call.status = "pending"
    /\ call.result = Unknown

=============================================================================
